---------------------------- MODULE Spec2Model ----------------------------
(***************************************************************************)
(* Story Time Locator: the Flask backend of src/app.py and the deployment  *)
(* script src/update_and_deploy.py.                                        *)
(*                                                                         *)
(* Three module-level collections of event dictionaries are loaded from    *)
(* JSON files (load_event_data), searched (search and its filter stages,   *)
(* add_duration_info, sort_by_date) and reloaded (refresh_data).           *)
(*                                                                         *)
(* Spec is the running server, FnSpec applies the pure functions of app.py *)
(* to bounded inputs, DeploySpec is one run of update_and_deploy.main.     *)
(*                                                                         *)
(* Representation.                                                         *)
(*  - An event dictionary is a function from its keys to its values; a key *)
(*    the dictionary lacks is not in the DOMAIN (event.get(k, d) is Get).  *)
(*  - Python object identity matters (list.copy() is shallow, {**e} makes  *)
(*    a new dict): a dictionary that lives in a loaded collection carries  *)
(*    the model-only key "oid" = <<source, load number, index>>; a dict    *)
(*    created by a request carries none.  "oid" is never shown to filters  *)
(*    or put in a response.                                                *)
(*  - Free text (audience, description, title, kids_ages) is a sequence of *)
(*    tokens; the regular expressions of the code are matched on tokens.   *)
(*  - Date and time strings are strings; strptime is a lookup that fails   *)
(*    (ValueError) on every string it does not list.                       *)
(*  - A date is its proleptic Gregorian ordinal (date.toordinal()).        *)
(*  - JSON null (Python None) is the value None where a string is expected *)
(*    and NoneText where a text is expected; a JSON list where a string is *)
(*    expected is a token sequence that starts with ListMark.              *)
(*  - An exception that leaves a function is a predicate ..._raises; the   *)
(*    value of the function is then not used.                              *)
(***************************************************************************)
EXTENDS Integers, Sequences, FiniteSets, TLC

VARIABLES jersey_city_events, hoboken_events, bookstore_events,
          files, gen, loaded, lpc, refresh_resp,
          spc, req, events, seen, today, resp, prev, nsearch,
          fn_in, fn_arg, fn_today, fn_op, fn_out,
          dpc, outcome, ran, success_count

server_vars == <<jersey_city_events, hoboken_events, bookstore_events,
                 files, gen, loaded, lpc, refresh_resp,
                 spc, req, events, seen, today, resp, prev, nsearch>>

fn_vars == <<fn_in, fn_arg, fn_today, fn_op, fn_out>>

deploy_vars == <<dpc, outcome, ran, success_count>>

vars == <<server_vars, fn_vars, deploy_vars>>

(***************************************************************************)
(* Bounds of the model.                                                    *)
(***************************************************************************)
\* longest input list given to a pure function
MaxLen == 3
\* number of /refresh requests after start-up
MaxReloads == 1
\* number of midnights that pass while the server runs
MaxTicks == 1
\* number of /search requests served
MaxSearches == 2

-----------------------------------------------------------------------------
(***************************************************************************)
(* Dictionaries and sequences.                                             *)
(***************************************************************************)

\* None where the code expects a str
None == "<None>"

\* None where the code expects a str that the model keeps as tokens
NoneText == <<None>>

\* the first token of a JSON list given where the code expects a str
ListMark == "<list>"

\* isinstance(v, str), for a value the model keeps as tokens
IsStr(v) == v = <<>> \/ v[1] \notin {None, ListMark}

\* dict.get(k, d)
Get(e, k, d) == IF k \in DOMAIN e THEN e[k] ELSE d

\* {**e, k: v} and e[k] = v: the dictionary with key k set to v
With(e, k, v) == [x \in DOMAIN e \cup {k} |-> IF x = k THEN v ELSE e[x]]

\* the dictionary without the model-only identity key
Strip(e) == [x \in DOMAIN e \ {"oid"} |-> e[x]]

Map(s, F(_)) == [i \in 1..Len(s) |-> F(s[i])]

\* all injective sequences over S of length at most n
InjSeqs(S, n) ==
    UNION { { s \in [1..k -> S] : \A i, j \in 1..k : i # j => s[i] # s[j] }
            : k \in 0..n }

\* all sequences over S of length at most n
SeqsUpTo(S, n) == UNION { [1..k -> S] : k \in 0..n }

-----------------------------------------------------------------------------
(***************************************************************************)
(* Strings: str.lower(), int(), substring tests, strptime.                 *)
(***************************************************************************)

\* str.lower() of one token
Lower(t) ==
    CASE t = "All"         -> "all"
      [] t = "Ages"        -> "ages"
      [] t = "AGES"        -> "ages"
      [] t = "Baby"        -> "baby"
      [] t = "Toddler"     -> "toddler"
      [] t = "Preschool"   -> "preschool"
      [] t = "Infant"      -> "infant"
      [] t = "Storytime"   -> "storytime"
      [] t = "Story"       -> "story"
      [] t = "Time"        -> "time"
      [] t = "Events"      -> "events"
      [] t = "Music"       -> "music"
      [] t = "Dance"       -> "dance"
      [] t = "Arts"        -> "arts"
      [] t = "Crafts"      -> "crafts"
      [] t = "STEM"        -> "stem"
      [] t = "S.T.E.A.M"   -> "s.t.e.a.m"
      [] t = "Jersey City" -> "jersey city"
      [] t = "JERSEY CITY" -> "jersey city"
      [] t = "Hoboken"     -> "hoboken"
      [] t = "HOBOKEN"     -> "hoboken"
      [] t = "Monday"      -> "monday"
      [] t = "Tuesday"     -> "tuesday"
      [] t = "TUESDAY"     -> "tuesday"
      [] t = "Wednesday"   -> "wednesday"
      [] t = "Saturday"    -> "saturday"
      [] OTHER             -> t

\* text.lower() of a token sequence
LowerText(text) == Map(text, Lower)

\* the tokens that \d+ matches
IsNum(t) == t \in {"0", "1", "2", "3", "4", "5", "6", "8", "10", "11", "18"}

\* int(t) for a token that is all digits
IntOf(t) ==
    CASE t = "0" -> 0   [] t = "1" -> 1   [] t = "2" -> 2   [] t = "3" -> 3
      [] t = "4" -> 4   [] t = "5" -> 5   [] t = "6" -> 6   [] t = "8" -> 8
      [] t = "10" -> 10 [] t = "11" -> 11 [] t = "18" -> 18

\* t.endswith(kw), for lower-cased tokens
Suffix(t, kw) ==
    \/ t = kw
    \/ <<t, kw>> \in { <<"pages", "ages">>, <<"small", "all">>,
                       <<"system", "stem">>, <<"toystory", "story">> }

\* t.startswith(kw), for lower-cased tokens
Prefix(t, kw) ==
    \/ t = kw
    \/ <<t, kw>> \in { <<"toddlers", "toddler">>, <<"infants", "infant">>,
                       <<"preschoolers", "preschool">>, <<"babysitting", "baby">>,
                       <<"storytimes", "storytime">>, <<"dancers", "dance">>,
                       <<"ages", "age">>, <<"timely", "time">>,
                       <<"musical", "music">>, <<"steamboat", "steam">> }

\* kw in t, for a lower-cased token t and a one-word keyword kw
HasSub(t, kw) ==
    \/ Suffix(t, kw)
    \/ Prefix(t, kw)
    \/ <<t, kw>> \in { <<"pages", "age">> }

\* phrase in text: the words of phrase (lower case) as a substring of text
InText(phrase, text) ==
    LET n == Len(phrase) IN
    \E i \in 1..Len(text) - n + 1 :
        IF n = 1 THEN HasSub(text[i], phrase[1])
        ELSE /\ Suffix(text[i], phrase[1])
             /\ Prefix(text[i + n - 1], phrase[n])
             /\ \A j \in 2..n - 1 : text[i + j - 1] = phrase[j]

\* datetime.strptime(s, '%Y-%m-%d').date(): the ordinal, or ValueError
StrpDate(s) ==
    CASE s = "2025-11-02" -> [ok |-> TRUE, v |-> 739557]
      [] s = "2025-11-03" -> [ok |-> TRUE, v |-> 739558]
      [] s = "2025-11-04" -> [ok |-> TRUE, v |-> 739559]
      [] s = "2025-11-10" -> [ok |-> TRUE, v |-> 739565]
      [] s = "2025-11-11" -> [ok |-> TRUE, v |-> 739566]
      [] s = "2025-11-17" -> [ok |-> TRUE, v |-> 739572]
      [] s = "2025-12-03" -> [ok |-> TRUE, v |-> 739588]
      [] s = "2025-12-04" -> [ok |-> TRUE, v |-> 739589]
      [] s = "9999-12-31" -> [ok |-> TRUE, v |-> 3652059]
      [] OTHER            -> [ok |-> FALSE, v |-> 0]

\* datetime.strptime(s, '%H:%M:%S'): seconds since midnight, or ValueError
StrpTime(s) ==
    CASE s = "00:00:00" -> [ok |-> TRUE, v |-> 0]
      [] s = "09:30:00" -> [ok |-> TRUE, v |-> 34200]
      [] s = "10:00:00" -> [ok |-> TRUE, v |-> 36000]
      [] s = "10:15:00" -> [ok |-> TRUE, v |-> 36900]
      [] s = "10:45:00" -> [ok |-> TRUE, v |-> 38700]
      [] s = "11:00:00" -> [ok |-> TRUE, v |-> 39600]
      [] s = "12:00:00" -> [ok |-> TRUE, v |-> 43200]
      [] s = "12:30:00" -> [ok |-> TRUE, v |-> 45000]
      [] s = "16:00:00" -> [ok |-> TRUE, v |-> 57600]
      [] s = "17:00:00" -> [ok |-> TRUE, v |-> 61200]
      [] s = "18:30:00" -> [ok |-> TRUE, v |-> 66600]
      [] s = "23:59:59" -> [ok |-> TRUE, v |-> 86399]
      [] OTHER          -> [ok |-> FALSE, v |-> 0]

\* int(s.split(':')[0]): the hour, or ValueError
HourOf(s) ==
    CASE StrpTime(s).ok -> [ok |-> TRUE, v |-> StrpTime(s).v \div 3600]
      [] s = "9:30"     -> [ok |-> TRUE, v |-> 9]
      [] s = "25:00:00" -> [ok |-> TRUE, v |-> 25]
      [] s = "17"       -> [ok |-> TRUE, v |-> 17]
      [] OTHER          -> [ok |-> FALSE, v |-> 0]

-----------------------------------------------------------------------------
(***************************************************************************)
(* Age matching.  An optional age range is <<>> (None) or <<min, max>>.    *)
(***************************************************************************)

\* the least index in 1..n at which P holds, or 0
FirstAt(n, P(_)) ==
    IF \E i \in 1..n : P(i)
    THEN CHOOSE i \in 1..n : P(i) /\ \A j \in 1..i - 1 : ~P(j)
    ELSE 0

\* r'ages?\s+(\d+)\s*(?:-|to)\s*(\d+)' matched at token i of t
Pattern1At(t, i) ==
    /\ i + 3 <= Len(t)
    /\ Suffix(t[i], "age") \/ Suffix(t[i], "ages")
    /\ IsNum(t[i + 1])
    /\ t[i + 2] \in {"-", "to"}
    /\ IsNum(t[i + 3])

\* r'for\s+ages?\s+(\d+)\s*(?:-|to)\s*(\d+)' matched at token i of t
Pattern2At(t, i) ==
    /\ i + 4 <= Len(t)
    /\ Suffix(t[i], "for")
    /\ t[i + 1] \in {"age", "ages"}
    /\ IsNum(t[i + 2])
    /\ t[i + 3] \in {"-", "to"}
    /\ IsNum(t[i + 4])

\* r'(\d+)\s*-\s*(\d+)\s*years?\s+old' matched at token i of t
Pattern3At(t, i) ==
    /\ i + 4 <= Len(t)
    /\ IsNum(t[i])
    /\ t[i + 1] = "-"
    /\ IsNum(t[i + 2])
    /\ t[i + 3] \in {"year", "years"}
    /\ Prefix(t[i + 4], "old")

extract_age_range_from_text(text) ==
    IF text = <<>> \/ text = NoneText THEN <<>>
    ELSE
    LET t  == LowerText(text)
        m1 == FirstAt(Len(t), LAMBDA i : Pattern1At(t, i))
        m2 == FirstAt(Len(t), LAMBDA i : Pattern2At(t, i))
        m3 == FirstAt(Len(t), LAMBDA i : Pattern3At(t, i))
    IN  IF m1 # 0 THEN <<IntOf(t[m1 + 1]), IntOf(t[m1 + 3])>>
        ELSE IF m2 # 0 THEN <<IntOf(t[m2 + 2]), IntOf(t[m2 + 4])>>
        ELSE IF m3 # 0 THEN <<IntOf(t[m3]), IntOf(t[m3 + 2])>>
        ELSE <<>>

check_age_overlap(user_min, user_max, event_min, event_max) ==
    ~(user_max < event_min \/ user_min > event_max)

\* lines 286-294: the caller's interval, or ValueError
ParseAgeInput(age_input) ==
    IF \E i \in 1..Len(age_input) : age_input[i] = "-"
    THEN \* user_min, user_max = map(int, age_input.split('-'))
         IF /\ Len(age_input) = 3
            /\ IsNum(age_input[1]) /\ age_input[2] = "-" /\ IsNum(age_input[3])
         THEN [ok |-> TRUE, min |-> IntOf(age_input[1]), max |-> IntOf(age_input[3])]
         ELSE [ok |-> FALSE, min |-> 0, max |-> 0]
    ELSE \* user_min = user_max = int(age_input)
         IF Len(age_input) = 1 /\ IsNum(age_input[1])
         THEN [ok |-> TRUE, min |-> IntOf(age_input[1]), max |-> IntOf(age_input[1])]
         ELSE [ok |-> FALSE, min |-> 0, max |-> 0]

\* re.search(r'(\d+)\s*-\s*(\d+)', audience)
AudienceMatch(audience) ==
    LET m == FirstAt(Len(audience),
                     LAMBDA i : /\ i + 2 <= Len(audience)
                                /\ IsNum(audience[i])
                                /\ audience[i + 1] = "-"
                                /\ IsNum(audience[i + 2]))
    IN  IF m = 0 THEN <<>> ELSE <<IntOf(audience[m]), IntOf(audience[m + 2])>>

\* KeywordFallback with the final branch keeping the event
KeywordFallbackOpen(audience, user_min, user_max) == TRUE

\* lines 327-333
KeywordFallback(audience, user_min, user_max) ==
    IF InText(<<"toddler">>, audience) /\ user_max >= 1 /\ user_min <= 3
    THEN TRUE
    ELSE IF \/ InText(<<"baby">>, audience)
            \/ InText(<<"infant">>, audience) /\ user_max >= 0 /\ user_min <= 2
    THEN TRUE
    ELSE IF InText(<<"preschool">>, audience) /\ user_max >= 3 /\ user_min <= 5
    THEN TRUE
    ELSE FALSE

\* AgeKeeps without the continue of line 315: a description range that does
\* not overlap falls through to the audience checks
AgeKeepsFallThrough(event, user_min, user_max) ==
    LET audience       == LowerText(Get(event, "audience", <<>>))
        description    == Get(event, "description", <<>>)
        desc_age_range == extract_age_range_from_text(description)
        audience_match == AudienceMatch(audience)
    IN  IF InText(<<"all", "ages">>, audience) THEN TRUE
        ELSE IF /\ desc_age_range # <<>>
                /\ check_age_overlap(user_min, user_max,
                                     desc_age_range[1], desc_age_range[2])
        THEN TRUE
        ELSE IF /\ audience_match # <<>>
                /\ check_age_overlap(user_min, user_max,
                                     audience_match[1], audience_match[2])
        THEN TRUE
        ELSE KeywordFallback(audience, user_min, user_max)

\* AgeKeeps with 'all ages' looked for in the audience as written, not in
\* its lower-case form
AgeKeepsCaseSensitive(event, user_min, user_max) ==
    LET audience       == LowerText(Get(event, "audience", <<>>))
        description    == Get(event, "description", <<>>)
        desc_age_range == extract_age_range_from_text(description)
        audience_match == AudienceMatch(audience)
    IN  IF InText(<<"all", "ages">>, Get(event, "audience", <<>>)) THEN TRUE
        ELSE IF desc_age_range # <<>>
        THEN check_age_overlap(user_min, user_max,
                               desc_age_range[1], desc_age_range[2])
        ELSE IF /\ audience_match # <<>>
                /\ check_age_overlap(user_min, user_max,
                                     audience_match[1], audience_match[2])
        THEN TRUE
        ELSE KeywordFallback(audience, user_min, user_max)

\* lines 297-335: whether one pass of the loop appends the event
AgeKeeps(event, user_min, user_max) ==
    LET audience       == LowerText(Get(event, "audience", <<>>))
        description    == Get(event, "description", <<>>)
        desc_age_range == extract_age_range_from_text(description)
        audience_match == AudienceMatch(audience)
    IN  IF InText(<<"all", "ages">>, audience) THEN TRUE
        ELSE IF desc_age_range # <<>>
        THEN check_age_overlap(user_min, user_max,
                               desc_age_range[1], desc_age_range[2])
        ELSE IF /\ audience_match # <<>>
                /\ check_age_overlap(user_min, user_max,
                                     audience_match[1], audience_match[2])
        THEN TRUE
        ELSE KeywordFallback(audience, user_min, user_max)

\* lines 312 and 323: the arguments of the calls of check_age_overlap that
\* one pass of the loop makes
OverlapCalls(event, user_min, user_max) ==
    LET audience       == LowerText(Get(event, "audience", <<>>))
        desc_age_range == extract_age_range_from_text(Get(event, "description", <<>>))
        audience_match == AudienceMatch(audience)
    IN  IF InText(<<"all", "ages">>, audience) THEN {}
        ELSE IF desc_age_range # <<>>
        THEN { <<user_min, user_max, desc_age_range[1], desc_age_range[2]>> }
        ELSE IF audience_match # <<>>
        THEN { <<user_min, user_max, audience_match[1], audience_match[2]>> }
        ELSE {}

\* the calls of check_age_overlap that filter_by_age makes
filter_by_age_calls(evs, age_input) ==
    LET u == ParseAgeInput(age_input) IN
    IF ~u.ok THEN {}
    ELSE UNION { OverlapCalls(evs[i], u.min, u.max) : i \in 1..Len(evs) }

filter_by_age(evs, age_input) ==
    LET u == ParseAgeInput(age_input) IN
    IF ~u.ok THEN evs
    ELSE SelectSeq(evs, LAMBDA e : AgeKeeps(e, u.min, u.max))

\* lines 288-291 and 299: TypeError and AttributeError are not ValueError
filter_by_age_raises(evs, age_input) ==
    \/ ~IsStr(age_input)
    \/ /\ ParseAgeInput(age_input).ok
       /\ \E i \in 1..Len(evs) : Get(evs[i], "audience", <<>>) = NoneText

-----------------------------------------------------------------------------
(***************************************************************************)
(* The other filter stages.  datetime.now().date() is the parameter now.   *)
(***************************************************************************)

filter_by_days(evs, selected_days) ==
    IF selected_days = <<>> THEN evs
    ELSE LET selected_days_lower == { Lower(selected_days[i]) : i \in 1..Len(selected_days) }
         IN  SelectSeq(evs, LAMBDA e :
                 Lower(Get(e, "day_of_week", "")) \in selected_days_lower)

\* line 362: None has no lower()
filter_by_days_raises(evs, selected_days) ==
    /\ selected_days # <<>>
    /\ \E i \in 1..Len(evs) : Get(evs[i], "day_of_week", "") = None

\* filter_upcoming_events dropping the events whose date does not parse
filter_upcoming_events_closed(evs, now) ==
    SelectSeq(evs, LAMBDA e :
        LET event_date == StrpDate(Get(e, "date", "")) IN
        IF event_date.ok THEN event_date.v >= now ELSE FALSE)

\* filter_upcoming_events keeping only the events dated after today
filter_upcoming_events_strict(evs, now) ==
    SelectSeq(evs, LAMBDA e :
        LET event_date == StrpDate(Get(e, "date", "")) IN
        IF event_date.ok THEN event_date.v > now ELSE TRUE)

filter_upcoming_events(evs, now) ==
    SelectSeq(evs, LAMBDA e :
        LET event_date == StrpDate(Get(e, "date", "")) IN
        IF event_date.ok THEN event_date.v >= now ELSE TRUE)

\* line 388: strptime(None, ...) is a TypeError, which line 393 lets through
filter_upcoming_events_raises(evs) ==
    \E i \in 1..Len(evs) : Get(evs[i], "date", "") = None

\* lines 440-448: the window's length, or 0 for 'all' and unrecognised names
WindowDays(date_range) ==
    CASE date_range = "week"   -> 7
      [] date_range = "2weeks" -> 14
      [] date_range = "month"  -> 30
      [] OTHER                 -> 0

\* filter_by_date_range with the last day of the window left out
filter_by_date_range_open(evs, date_range, now) ==
    IF date_range \notin {"week", "2weeks", "month"} THEN evs
    ELSE LET end_date == now + WindowDays(date_range) IN
         SelectSeq(evs, LAMBDA e :
             LET event_date == StrpDate(Get(e, "date", "")) IN
             IF event_date.ok
             THEN now <= event_date.v /\ event_date.v < end_date
             ELSE TRUE)

filter_by_date_range(evs, date_range, now) ==
    IF date_range \notin {"week", "2weeks", "month"} THEN evs
    ELSE LET end_date == now + WindowDays(date_range) IN
         SelectSeq(evs, LAMBDA e :
             LET event_date == StrpDate(Get(e, "date", "")) IN
             IF event_date.ok
             THEN now <= event_date.v /\ event_date.v <= end_date
             ELSE TRUE)

\* line 453, as line 388
filter_by_date_range_raises(evs, date_range) ==
    /\ date_range \in {"week", "2weeks", "month"}
    /\ \E i \in 1..Len(evs) : Get(evs[i], "date", "") = None

\* line 481: None has no split(), and line 492 lets AttributeError through
filter_by_time_of_day_raises(evs, times) ==
    /\ times # <<>>
    /\ \E i \in 1..Len(evs) : Get(evs[i], "start_time", "00:00:00") = None

filter_by_time_of_day(evs, times) ==
    IF times = <<>> THEN evs
    ELSE LET want == { times[i] : i \in 1..Len(times) } IN
         SelectSeq(evs, LAMBDA e :
             LET hour == HourOf(Get(e, "start_time", "00:00:00")) IN
             IF hour.ok
             THEN \/ "morning" \in want /\ hour.v < 12
                  \/ "afternoon" \in want /\ 12 <= hour.v /\ hour.v < 17
                  \/ "evening" \in want /\ hour.v >= 17
             ELSE TRUE)

\* filter_by_venue_type with no default for an event without venue_type
filter_by_venue_type_nodefault(evs, venue_type) ==
    IF venue_type = "all" THEN evs
    ELSE SelectSeq(evs, LAMBDA e : Get(e, "venue_type", "") = venue_type)

filter_by_venue_type(evs, venue_type) ==
    IF venue_type = "all" THEN evs
    ELSE SelectSeq(evs, LAMBDA e : Get(e, "venue_type", "library") = venue_type)

\* lines 537-544: type_keywords.get(event_type, []), each keyword in words
TypeKeywords(event_type) ==
    CASE event_type = "storytime" ->
             << <<"Storytime", "Events">>, <<"storytime">>, <<"story", "time">> >>
      [] event_type = "arts" ->
             << <<"Arts", "and", "Crafts">>, <<"arts">>, <<"crafts">> >>
      [] event_type = "steam" ->
             << <<"S.T.E.A.M">>, <<"STEM">>, <<"steam">>, <<"stem">> >>
      [] event_type = "music" ->
             << <<"Music", "and", "Dance">>, <<"music">>, <<"dance">> >>
      [] OTHER -> << >>

\* filter_by_event_type comparing the category tags as they are written
filter_by_event_type_exact(evs, event_type) ==
    LET keywords == TypeKeywords(event_type) IN
    IF event_type = "all" \/ keywords = <<>> THEN evs
    ELSE SelectSeq(evs, LAMBDA e :
             LET categories  == Get(e, "categories", <<>>)
                 title       == LowerText(Get(e, "title", <<>>))
                 description == LowerText(Get(e, "description", <<>>))
             IN  \E k \in 1..Len(keywords) :
                     LET keyword_lower == LowerText(keywords[k]) IN
                     \/ \E c \in 1..Len(categories) :
                            InText(keywords[k], categories[c])
                     \/ InText(keyword_lower, title)
                     \/ InText(keyword_lower, description))

filter_by_event_type(evs, event_type) ==
    LET keywords == TypeKeywords(event_type) IN
    IF event_type = "all" \/ keywords = <<>> THEN evs
    ELSE SelectSeq(evs, LAMBDA e :
             LET categories  == Get(e, "categories", <<>>)
                 title       == LowerText(Get(e, "title", <<>>))
                 description == LowerText(Get(e, "description", <<>>))
             IN  \E k \in 1..Len(keywords) :
                     LET keyword_lower == LowerText(keywords[k]) IN
                     \/ \E c \in 1..Len(categories) :
                            InText(keyword_lower, LowerText(categories[c]))
                     \/ InText(keyword_lower, title)
                     \/ InText(keyword_lower, description))

\* lines 551-552: None has no lower()
filter_by_event_type_raises(evs, event_type) ==
    /\ event_type # "all"
    /\ TypeKeywords(event_type) # <<>>
    /\ \E i \in 1..Len(evs) :
         \/ Get(evs[i], "title", <<>>) = NoneText
         \/ Get(evs[i], "description", <<>>) = NoneText

-----------------------------------------------------------------------------
(***************************************************************************)
(* add_duration_info and sort_by_date.                                     *)
(*                                                                         *)
(* duration_hours is kept in seconds (duration.total_seconds(), before the *)
(* division by 3600), so 0.75 h is 2700 and "at least 6 hours" is 21600.   *)
(* formatted_end_time is <<>> for None and <<[hour, minute, period]>> for  *)
(* f"{display_hour}:{minute:02d} {period}".                                *)
(***************************************************************************)

\* FormatEndTime showing the hour of the 24-hour clock
FormatEndTime24(end_seconds) ==
    LET hour   == end_seconds \div 3600
        minute == (end_seconds % 3600) \div 60
        period == IF hour < 12 THEN "AM" ELSE "PM"
    IN  << [hour |-> hour, minute |-> minute, period |-> period] >>

\* lines 607-613
FormatEndTime(end_seconds) ==
    LET hour   == end_seconds \div 3600
        minute == (end_seconds % 3600) \div 60
        period == IF hour < 12 THEN "AM" ELSE "PM"
        dh     == IF hour <= 12 THEN hour ELSE hour - 12
        display_hour == IF dh = 0 THEN 12 ELSE dh
    IN  << [hour |-> display_hour, minute |-> minute, period |-> period] >>

\* the three assignments of lines 615-617 and 621-623
SetDefaults(event) ==
    With(With(With(event, "duration_hours", 0), "is_all_day", FALSE),
         "formatted_end_time", <<>>)

\* lines 590-613: the exception raised inside the try, "none" if there is none
AnnotateException(event) ==
    LET start_time == Get(event, "start_time", "00:00:00")
        end_time   == Get(event, "end_time", "")
    IN  IF end_time \in {"", None} THEN "none"
        ELSE IF start_time = None THEN "TypeError"
        ELSE IF ~StrpTime(start_time).ok \/ ~StrpTime(end_time).ok THEN "ValueError"
        ELSE "none"

\* line 619: an exception of another kind leaves add_duration_info
add_duration_info_raises(evs) ==
    \E i \in 1..Len(evs) :
        AnnotateException(evs[i]) \notin {"none", "ValueError", "TypeError"}

\* Annotate formatting the end time before the start time is parsed
AnnotateEndFirst(event) ==
    LET start_time == Get(event, "start_time", "00:00:00")
        end_time   == Get(event, "end_time", "")
        start_dt   == StrpTime(start_time)
        end_dt     == StrpTime(end_time)
    IN  IF end_time \in {"", None} THEN SetDefaults(event)
        ELSE IF ~end_dt.ok THEN SetDefaults(event)
        ELSE IF ~start_dt.ok
        THEN With(SetDefaults(event), "formatted_end_time", FormatEndTime(end_dt.v))
        ELSE LET duration == end_dt.v - start_dt.v IN
             With(With(With(event, "duration_hours", duration),
                       "is_all_day", duration >= 21600),
                  "formatted_end_time", FormatEndTime(end_dt.v))

\* Annotate storing the display form of the end time under 'end_time'
AnnotateOverwriteEnd(event) ==
    LET start_time == Get(event, "start_time", "00:00:00")
        end_time   == Get(event, "end_time", "")
        start_dt   == StrpTime(start_time)
        end_dt     == StrpTime(end_time)
    IN  IF end_time \in {"", None} THEN SetDefaults(event)
        ELSE IF ~start_dt.ok \/ ~end_dt.ok THEN SetDefaults(event)
        ELSE LET duration == end_dt.v - start_dt.v IN
             With(With(With(With(event, "duration_hours", duration),
                            "is_all_day", duration >= 21600),
                       "formatted_end_time", FormatEndTime(end_dt.v)),
                  "end_time", "display")

\* lines 589-623: the dictionary after one pass of the loop
Annotate(event) ==
    LET start_time == Get(event, "start_time", "00:00:00")
        end_time   == Get(event, "end_time", "")
        start_dt   == StrpTime(start_time)
        end_dt     == StrpTime(end_time)
    IN  IF end_time \in {"", None} THEN SetDefaults(event)
        ELSE IF ~start_dt.ok \/ ~end_dt.ok THEN SetDefaults(event)
        ELSE LET duration == end_dt.v - start_dt.v IN
             With(With(With(event, "duration_hours", duration),
                       "is_all_day", duration >= 21600),
                  "formatted_end_time", FormatEndTime(end_dt.v))

\* the list it returns: the same dictionaries, modified in place
add_duration_info(evs) == Map(evs, Annotate)

\* datetime.max, as <<ordinal, second of the day, microsecond>>
DatetimeMax == <<3652059, 86399, 999999>>

\* lines 413-421
get_sort_key(event) ==
    LET date_str == Get(event, "date", "9999-12-31")
        time_str == Get(event, "start_time", "00:00:00")
        d == StrpDate(date_str)
        t == StrpTime(time_str)
    IN  IF d.ok /\ t.ok THEN <<d.v, t.v, 0>> ELSE DatetimeMax

\* datetime's a <= b
KeyLE(a, b) ==
    \/ a[1] < b[1]
    \/ a[1] = b[1] /\ a[2] < b[2]
    \/ a[1] = b[1] /\ a[2] = b[2] /\ a[3] <= b[3]

\* InsertStable placing e before the elements equal to it
InsertBeforeEqual(s, e) ==
    LET k == Cardinality({ i \in 1..Len(s) :
                             /\ KeyLE(get_sort_key(s[i]), get_sort_key(e))
                             /\ get_sort_key(s[i]) # get_sort_key(e) })
    IN  SubSeq(s, 1, k) \o <<e>> \o SubSeq(s, k + 1, Len(s))

\* one step of a stable sort: e goes after every element not greater than it
InsertStable(s, e) ==
    LET k == Cardinality({ i \in 1..Len(s) :
                             KeyLE(get_sort_key(s[i]), get_sort_key(e)) })
    IN  SubSeq(s, 1, k) \o <<e>> \o SubSeq(s, k + 1, Len(s))

RECURSIVE SortPrefix(_, _)
\* sorted(events[:n], key=get_sort_key)
SortPrefix(evs, n) ==
    IF n = 0 THEN <<>> ELSE InsertStable(SortPrefix(evs, n - 1), evs[n])

\* line 423: sorted() is stable
sort_by_date(evs) == SortPrefix(evs, Len(evs))

-----------------------------------------------------------------------------
(***************************************************************************)
(* search, in the pieces that touch shared state separately.               *)
(***************************************************************************)

\* request.get_json() for the body 'null': None, which is not a dictionary
NoneBody == [ x \in {"<null>"} |-> None ]

IsDict(data) == "<null>" \notin DOMAIN data

\* line 115: None has no get()
Resolve_raises(data) == ~IsDict(data)

\* lines 115-121: the request body's values, or the defaults
Resolve(data) ==
    [ city        |-> Get(data, "city", "both"),
      kids_ages   |-> Get(data, "kids_ages", <<>>),
      days        |-> Get(data, "days", <<>>),
      date_range  |-> Get(data, "date_range", "all"),
      time_of_day |-> Get(data, "time_of_day", <<>>),
      venue_type  |-> Get(data, "venue_type", "all"),
      event_type  |-> Get(data, "event_type", "all") ]

\* {'city': name, **event}: a new dictionary that keeps the event's own city
TaggedKeep(event, name) ==
    IF "city" \in DOMAIN event THEN Strip(event)
    ELSE With(Strip(event), "city", name)

\* {**event, 'city': name}: a new dictionary
Tagged(event, name) == With(Strip(event), "city", name)

\* lines 128, 133, 138-140: what the first read of a collection yields
ReadNative(city, jc, hob) ==
    IF city = "jersey_city" THEN jc
    ELSE IF city = "hoboken" THEN hob
    ELSE Map(jc, LAMBDA e : Tagged(e, "Jersey City"))

\* lines 141-144: the Hoboken part of the 'both' union
ReadHoboken(hob) == Map(hob, LAMBDA e : Tagged(e, "Hoboken"))

\* ReadBookstore comparing the city tag as it is written
ReadBookstoreExact(city, bs) ==
    IF city = "jersey_city"
    THEN SelectSeq(bs, LAMBDA e : Get(e, "city", "") = "Jersey City")
    ELSE IF city = "hoboken"
    THEN SelectSeq(bs, LAMBDA e : Get(e, "city", "") = "Hoboken")
    ELSE bs

\* lines 130, 135, 146: the bookstore part
ReadBookstore(city, bs) ==
    IF city = "jersey_city"
    THEN SelectSeq(bs, LAMBDA e : Lower(Get(e, "city", "")) = "jersey city")
    ELSE IF city = "hoboken"
    THEN SelectSeq(bs, LAMBDA e : Lower(Get(e, "city", "")) = "hoboken")
    ELSE bs

\* lines 124-147 with no other thread running
WorkingSet(city, jc, hob, bs) ==
    ReadNative(city, jc, hob)
      \o (IF city \in {"jersey_city", "hoboken"} THEN <<>> ELSE ReadHoboken(hob))
      \o ReadBookstore(city, bs)

\* lines 156-159
AgeStage(evs, kids_ages) ==
    IF kids_ages # <<>> THEN filter_by_age(evs, kids_ages) ELSE evs

\* FilterChain with the age stage in an elif of the date-window stage
FilterChainElif(evs, q, now1, now2) ==
    LET e1 == filter_upcoming_events(evs, now1)
        e3 == IF q.date_range # "all"
              THEN filter_by_date_range(e1, q.date_range, now2)
              ELSE AgeStage(e1, q.kids_ages)
        e4 == IF q.days # <<>> THEN filter_by_days(e3, q.days) ELSE e3
        e5 == IF q.time_of_day # <<>>
              THEN filter_by_time_of_day(e4, q.time_of_day) ELSE e4
        e6 == IF q.venue_type # "all"
              THEN filter_by_venue_type(e5, q.venue_type) ELSE e5
    IN  IF q.event_type # "all" THEN filter_by_event_type(e6, q.event_type) ELSE e6

\* lines 149-177; now1 and now2 are the two readings of the clock
FilterChain(evs, q, now1, now2) ==
    LET e1 == filter_upcoming_events(evs, now1)
        e2 == IF q.date_range # "all"
              THEN filter_by_date_range(e1, q.date_range, now2) ELSE e1
        e3 == AgeStage(e2, q.kids_ages)
        e4 == IF q.days # <<>> THEN filter_by_days(e3, q.days) ELSE e3
        e5 == IF q.time_of_day # <<>>
              THEN filter_by_time_of_day(e4, q.time_of_day) ELSE e4
        e6 == IF q.venue_type # "all"
              THEN filter_by_venue_type(e5, q.venue_type) ELSE e5
    IN  IF q.event_type # "all" THEN filter_by_event_type(e6, q.event_type) ELSE e6

\* the stages of lines 149-177, in the order search applies them
StageNames ==
    << "upcoming", "date_range", "age", "days", "time_of_day", "venue_type",
       "event_type" >>

\* one stage called on evs with the value the query q has for it
StageApply(name, evs, q, now) ==
    CASE name = "upcoming"    -> filter_upcoming_events(evs, now)
      [] name = "date_range"  -> filter_by_date_range(evs, q.date_range, now)
      [] name = "age"         -> filter_by_age(evs, q.kids_ages)
      [] name = "days"        -> filter_by_days(evs, q.days)
      [] name = "time_of_day" -> filter_by_time_of_day(evs, q.time_of_day)
      [] name = "venue_type"  -> filter_by_venue_type(evs, q.venue_type)
      [] name = "event_type"  -> filter_by_event_type(evs, q.event_type)

\* whether that call raises
StageApply_raises(name, evs, q) ==
    CASE name = "upcoming"    -> filter_upcoming_events_raises(evs)
      [] name = "date_range"  -> filter_by_date_range_raises(evs, q.date_range)
      [] name = "age"         -> filter_by_age_raises(evs, q.kids_ages)
      [] name = "days"        -> filter_by_days_raises(evs, q.days)
      [] name = "time_of_day" -> filter_by_time_of_day_raises(evs, q.time_of_day)
      [] name = "venue_type"  -> FALSE
      [] name = "event_type"  -> filter_by_event_type_raises(evs, q.event_type)

\* stage first, then stage second on what it returned: the list that comes
\* out, or raised if one of the two calls raises
TwoStages(first, second, evs, q, now) ==
    IF StageApply_raises(first, evs, q)
    THEN [ raised |-> TRUE, events |-> <<>> ]
    ELSE IF StageApply_raises(second, StageApply(first, evs, q, now), q)
    THEN [ raised |-> TRUE, events |-> <<>> ]
    ELSE [ raised |-> FALSE,
           events |-> StageApply(second, StageApply(first, evs, q, now), q, now) ]

\* lines 149-177: whether one of the stages that run raises
FilterChain_raises(evs, q, now1, now2) ==
    \/ filter_upcoming_events_raises(evs)
    \/ \E e1 \in {filter_upcoming_events(evs, now1)} :
       \/ q.date_range # "all" /\ filter_by_date_range_raises(e1, q.date_range)
       \/ \E e2 \in {IF q.date_range # "all"
                      THEN filter_by_date_range(e1, q.date_range, now2) ELSE e1} :
          \/ q.kids_ages # <<>> /\ filter_by_age_raises(e2, q.kids_ages)
          \/ \E e3 \in {AgeStage(e2, q.kids_ages)} :
             \/ q.days # <<>> /\ filter_by_days_raises(e3, q.days)
             \/ \E e4 \in {IF q.days # <<>>
                            THEN filter_by_days(e3, q.days) ELSE e3} :
                \/ /\ q.time_of_day # <<>>
                   /\ filter_by_time_of_day_raises(e4, q.time_of_day)
                \/ \E e5 \in {IF q.time_of_day # <<>>
                               THEN filter_by_time_of_day(e4, q.time_of_day)
                               ELSE e4} :
                   \E e6 \in {IF q.venue_type # "all"
                               THEN filter_by_venue_type(e5, q.venue_type)
                               ELSE e5} :
                      /\ q.event_type # "all"
                      /\ filter_by_event_type_raises(e6, q.event_type)

\* lines 149-183: whether the stages, add_duration_info or the sort raises
Pipeline_raises(evs, q, now1, now2) ==
    \/ FilterChain_raises(evs, q, now1, now2)
    \/ add_duration_info_raises(FilterChain(evs, q, now1, now2))

\* lines 149-183: the list jsonify is given (dictionaries still with identity)
Pipeline(evs, q, now1, now2) ==
    sort_by_date(add_duration_info(FilterChain(evs, q, now1, now2)))

\* lines 186-197
Response(evs, q) ==
    [ status  |-> 200,
      results |-> Map(evs, Strip),
      count   |-> Len(evs),
      user_preferences |->
          [ city        |-> q.city,
            kids_ages   |-> q.kids_ages,
            days        |-> q.days,
            date_range  |-> q.date_range,
            time_of_day |-> q.time_of_day,
            event_type  |-> q.event_type ] ]

\* lines 199-201; the message after 'Search failed: ' is left out
ErrorResponse == [ status |-> 500, error |-> "Search failed" ]

\* SearchResponse answering a failure with an empty result list
SearchResponsePartial(evs, data, now1, now2) ==
    IF Resolve_raises(data) \/ Pipeline_raises(evs, Resolve(data), now1, now2)
    THEN [ status |-> 500, error |-> "Search failed", results |-> <<>>,
           count |-> 0 ]
    ELSE Response(Pipeline(evs, Resolve(data), now1, now2), Resolve(data))

\* lines 111-201 on a working set already built: the response to body data
SearchResponse(evs, data, now1, now2) ==
    IF Resolve_raises(data) THEN ErrorResponse
    ELSE LET q == Resolve(data) IN
         IF Pipeline_raises(evs, q, now1, now2) THEN ErrorResponse
         ELSE Response(Pipeline(evs, q, now1, now2), q)

\* a collection after the in-place writes of add_duration_info to the
\* dictionaries of done that still live in it
Written(coll, src, g, done) ==
    [ i \in 1..Len(coll) |->
        IF \E k \in 1..Len(done) : Get(done[k], "oid", <<>>) = <<src, g, i>>
        THEN LET k == CHOOSE k \in 1..Len(done) :
                          Get(done[k], "oid", <<>>) = <<src, g, i>>
             IN  done[k]
        ELSE coll[i] ]

-----------------------------------------------------------------------------
(***************************************************************************)
(* The server: the JSON files, the three collections, one /refresh thread  *)
(* and one /search thread (app.run serves each request in its own thread). *)
(***************************************************************************)

\* the day the server starts: 2025-11-03
Today0 == 739558

Sources == {"jc", "hob", "bs"}

jcBaby ==
    [ title |-> <<"Baby", "Storytime">>, date |-> "2025-11-04",
      start_time |-> "10:00:00", end_time |-> "10:45:00",
      day_of_week |-> "Tuesday", audience |-> <<"Ages", "0", "-", "2">>,
      categories |-> << <<"Storytime", "Events">> >> ]

jcFamily ==
    [ title |-> <<"Family", "Crafts">>, date |-> "2025-11-11",
      start_time |-> "16:00:00", day_of_week |-> "Tuesday",
      audience |-> <<"All", "Ages">> ]

jcToddler ==
    [ title |-> <<"Toddler", "Time">>, date |-> "2025-11-10",
      start_time |-> "09:30:00", end_time |-> "10:15:00",
      day_of_week |-> "Monday", audience |-> <<"Toddler">> ]

hobCamp ==
    [ title |-> <<"STEM", "Camp">>, date |-> "2025-11-04",
      start_time |-> "11:00:00", end_time |-> "17:00:00",
      day_of_week |-> "Tuesday",
      description |-> <<"for", "ages", "3", "-", "5">> ]

hobUndated ==
    [ title |-> <<"Music", "Hour">>, start_time |-> "10:00:00",
      end_time |-> "noon" ]

bsHoboken ==
    [ title |-> <<"Story", "Time">>, date |-> "2025-11-04",
      start_time |-> "10:00:00", end_time |-> "10:45:00",
      day_of_week |-> "Wednesday", venue_type |-> "bookstore",
      city |-> "Hoboken", audience |-> <<"Ages", "0", "-", "5">>,
      categories |-> << <<"Bookstore", "Events">>, <<"Storytime", "Events">> >> ]

bsJersey ==
    [ title |-> <<"Story", "Hour">>, date |-> "2025-11-02",
      start_time |-> "10:00:00", venue_type |-> "bookstore",
      city |-> "JERSEY CITY" ]

bsJerseyLate ==
    [ title |-> <<"Evening", "Tales">>, date |-> "2025-11-17",
      start_time |-> "18:30:00", venue_type |-> "bookstore",
      city |-> "Jersey City" ]

\* what a JSON file can hold: a list of events, or nothing readable
Readable(data) == [state |-> "ok", data |-> data]
Missing == [state |-> "missing", data |-> <<>>]
Unreadable == [state |-> "unreadable", data |-> <<>>]

FirstFiles ==
    [ s \in Sources |->
        CASE s = "jc"  -> Readable(<<jcBaby, jcFamily>>)
          [] s = "hob" -> Readable(<<hobCamp, hobUndated>>)
          [] s = "bs"  -> Readable(<<bsHoboken, bsJersey>>) ]

\* the files after the scrapers have run again
SecondFiles ==
    [ s \in Sources |->
        CASE s = "jc"  -> Readable(<<jcToddler>>)
          [] s = "hob" -> Missing
          [] s = "bs"  -> Readable(<<bsJerseyLate, bsHoboken>>) ]

\* the same, with the bookstore file cut short while it was written
ThirdFiles == [SecondFiles EXCEPT !["bs"] = Unreadable]

\* the request bodies of this model
Requests ==
    { <<>> }
    \cup { [city |-> c, date_range |-> r] :
             c \in {"jersey_city", "hoboken"}, r \in {"all", "week"} }
    \cup { [city |-> c, kids_ages |-> <<"0", "-", "2">>] :
             c \in {"jersey_city", "both"} }
    \cup { NoneBody, [kids_ages |-> <<ListMark, "0", "-", "2">>] }

\* json.load: new dictionaries, here the g-th load of src
Loaded(src, g, file) ==
    IF file.state = "ok"
    THEN [ i \in 1..Len(file.data) |-> With(file.data[i], "oid", <<src, g, i>>) ]
    ELSE <<>>

NoResponse == [status |-> 0]
NoStamp == [seen |-> [s \in Sources |-> 0]]

\* the pure-function variables while the server runs
FnIdle ==
    /\ fn_in = <<>> /\ fn_arg = <<>> /\ fn_today = 0
    /\ fn_op = "none" /\ fn_out = <<>>

\* lines 648-672: load_event_data() has run, no request yet
ServerInit ==
    /\ files = FirstFiles
    /\ jersey_city_events = Loaded("jc", 1, files["jc"])
    /\ hoboken_events = Loaded("hob", 1, files["hob"])
    /\ bookstore_events = Loaded("bs", 1, files["bs"])
    /\ gen = [s \in Sources |-> 1]
    /\ loaded = [s \in Sources |-> Loaded(s, 1, files[s])]
    /\ lpc = "idle"
    /\ refresh_resp = NoResponse
    /\ spc = "idle"
    /\ req = Resolve(<<>>)
    /\ events = <<>>
    /\ seen = [s \in Sources |-> 0]
    /\ today = Today0
    /\ resp = [stamp |-> NoStamp, body |-> NoResponse]
    /\ prev = [stamp |-> NoStamp, body |-> NoResponse]
    /\ nsearch = 0

\* the commands update_and_deploy.py runs
parsers ==
    << "python jc_library_rss_parser.py", "python hoboken_library_rss_parser.py",
       "python bookstore_scraper.py" >>

Commands ==
    { parsers[i] : i \in 1..Len(parsers) }
        \cup {"git status", "git add", "git commit", "git push"}

\* update_and_deploy.py is not running
DeployIdle ==
    /\ dpc = "off"
    /\ outcome = [c \in Commands |-> "ok"]
    /\ ran = <<>>
    /\ success_count = 0

Init == ServerInit /\ FnIdle /\ DeployIdle

\* update_all_events.py: the scrapers rewrite the files (save_to_json,
\* save_bookstore_events) before the server is asked to refresh
RunParsers ==
    /\ lpc = "idle"
    /\ files = FirstFiles
    /\ files' \in {SecondFiles, ThirdFiles}
    /\ UNCHANGED <<jersey_city_events, hoboken_events, bookstore_events, gen,
                   loaded, lpc, refresh_resp, spc, req, events, seen, today,
                   resp, prev, nsearch, fn_vars, deploy_vars>>

\* the clock passes midnight
Tick ==
    /\ today < Today0 + MaxTicks
    /\ today' = today + 1
    /\ UNCHANGED <<jersey_city_events, hoboken_events, bookstore_events, files,
                   gen, loaded, lpc, refresh_resp, spc, req, events, seen,
                   resp, prev, nsearch, fn_vars, deploy_vars>>

\* lines 45-56: /refresh arrives and load_event_data rebinds jersey_city_events
LoadJerseyCity ==
    /\ lpc = "idle"
    /\ gen["jc"] < 1 + MaxReloads
    /\ jersey_city_events' = Loaded("jc", gen["jc"] + 1, files["jc"])
    /\ gen' = [gen EXCEPT !["jc"] = @ + 1]
    /\ loaded' = [loaded EXCEPT !["jc"] = jersey_city_events']
    /\ lpc' = "hob"
    /\ UNCHANGED <<hoboken_events, bookstore_events, files, refresh_resp, spc,
                   req, events, seen, today, resp, prev, nsearch, fn_vars, deploy_vars>>

\* LoadHoboken with the three loads under one try: a file that cannot be
\* read ends load_event_data
LoadHobokenAbort ==
    /\ lpc = "hob"
    /\ IF files["hob"].state = "ok"
       THEN /\ hoboken_events' = Loaded("hob", gen["hob"] + 1, files["hob"])
            /\ gen' = [gen EXCEPT !["hob"] = @ + 1]
            /\ loaded' = [loaded EXCEPT !["hob"] = hoboken_events']
            /\ lpc' = "bs"
       ELSE /\ lpc' = "idle"
            /\ UNCHANGED <<hoboken_events, gen, loaded>>
    /\ UNCHANGED <<jersey_city_events, bookstore_events, files, refresh_resp, spc,
                   req, events, seen, today, resp, prev, nsearch, fn_vars, deploy_vars>>

\* lines 58-69
LoadHoboken ==
    /\ lpc = "hob"
    /\ hoboken_events' = Loaded("hob", gen["hob"] + 1, files["hob"])
    /\ gen' = [gen EXCEPT !["hob"] = @ + 1]
    /\ loaded' = [loaded EXCEPT !["hob"] = hoboken_events']
    /\ lpc' = "bs"
    /\ UNCHANGED <<jersey_city_events, bookstore_events, files, refresh_resp, spc,
                   req, events, seen, today, resp, prev, nsearch, fn_vars, deploy_vars>>

\* lines 71-82
LoadBookstore ==
    /\ lpc = "bs"
    /\ bookstore_events' = Loaded("bs", gen["bs"] + 1, files["bs"])
    /\ gen' = [gen EXCEPT !["bs"] = @ + 1]
    /\ loaded' = [loaded EXCEPT !["bs"] = bookstore_events']
    /\ lpc' = "respond"
    /\ UNCHANGED <<jersey_city_events, hoboken_events, files, refresh_resp, spc,
                   req, events, seen, today, resp, prev, nsearch, fn_vars, deploy_vars>>

\* lines 640-645
RefreshRespond ==
    /\ lpc = "respond"
    /\ refresh_resp' = [ status |-> 200,
                         jersey_city_count |-> Len(jersey_city_events),
                         hoboken_count |-> Len(hoboken_events),
                         bookstore_count |-> Len(bookstore_events) ]
    /\ lpc' = "idle"
    /\ UNCHANGED <<jersey_city_events, hoboken_events, bookstore_events, files,
                   gen, loaded, spc, req, events, seen, today, resp, prev,
                   nsearch, fn_vars, deploy_vars>>

\* lines 114-140: the request is read and the first collection is
SearchStart ==
    /\ spc = "idle"
    /\ nsearch < MaxSearches
    /\ nsearch' = nsearch + 1
    /\ \E data \in Requests :
         /\ ~Resolve_raises(data)
         /\ req' = Resolve(data)
         /\ events' = ReadNative(req'.city, jersey_city_events, hoboken_events)
         /\ seen' = [ s \in Sources |->
                        IF s = "jc" /\ req'.city # "hoboken" THEN gen["jc"]
                        ELSE IF s = "hob" /\ req'.city = "hoboken" THEN gen["hob"]
                        ELSE 0 ]
         /\ spc' = IF req'.city \in {"jersey_city", "hoboken"} THEN "bs" ELSE "hob"
    /\ UNCHANGED <<jersey_city_events, hoboken_events, bookstore_events, files,
                   gen, loaded, lpc, refresh_resp, today, resp, prev, fn_vars, deploy_vars>>

\* lines 114-115 and 199-201: the body is not a dictionary
SearchRejects ==
    /\ spc = "idle"
    /\ nsearch < MaxSearches
    /\ nsearch' = nsearch + 1
    /\ \E data \in Requests :
         /\ Resolve_raises(data)
         /\ resp' = [ stamp |-> [q |-> data, seen |-> [s \in Sources |-> 0],
                                 now1 |-> today, now2 |-> today],
                      body  |-> ErrorResponse ]
    /\ prev' = resp
    /\ UNCHANGED <<jersey_city_events, hoboken_events, bookstore_events, files,
                   gen, loaded, lpc, refresh_resp, spc, req, events, seen,
                   today, fn_vars, deploy_vars>>

\* lines 141-144
SearchReadHoboken ==
    /\ spc = "hob"
    /\ events' = events \o ReadHoboken(hoboken_events)
    /\ seen' = [seen EXCEPT !["hob"] = gen["hob"]]
    /\ spc' = "bs"
    /\ UNCHANGED <<jersey_city_events, hoboken_events, bookstore_events, files,
                   gen, loaded, lpc, refresh_resp, req, today, resp, prev,
                   nsearch, fn_vars, deploy_vars>>

\* lines 130, 135, 146
SearchReadBookstore ==
    /\ spc = "bs"
    /\ events' = events \o ReadBookstore(req.city, bookstore_events)
    /\ seen' = [seen EXCEPT !["bs"] = gen["bs"]]
    /\ spc' = "run"
    /\ UNCHANGED <<jersey_city_events, hoboken_events, bookstore_events, files,
                   gen, loaded, lpc, refresh_resp, req, today, resp, prev,
                   nsearch, fn_vars, deploy_vars>>

\* lines 149-197: the stages, add_duration_info (which writes to the
\* dictionaries it is given), the sort and the response
SearchRun ==
    /\ spc = "run"
    /\ \E now2 \in {today, IF today < Today0 + MaxTicks THEN today + 1 ELSE today} :
       \E done \in {Pipeline(events, req, today, now2)} :
         /\ ~Pipeline_raises(events, req, today, now2)
         /\ today' = now2
         /\ jersey_city_events' = Written(jersey_city_events, "jc", gen["jc"], done)
         /\ hoboken_events' = Written(hoboken_events, "hob", gen["hob"], done)
         /\ bookstore_events' = Written(bookstore_events, "bs", gen["bs"], done)
         /\ resp' = [ stamp |-> [q |-> req, seen |-> seen, now1 |-> today,
                                 now2 |-> now2],
                      body  |-> Response(done, req) ]
    /\ prev' = resp
    /\ events' = <<>>
    /\ spc' = "idle"
    /\ UNCHANGED <<files, gen, loaded, lpc, refresh_resp, req, seen, nsearch,
                   fn_vars, deploy_vars>>

\* lines 149-183 and 199-201: a stage raises, nothing has been written
SearchFails ==
    /\ spc = "run"
    /\ \E now2 \in {today, IF today < Today0 + MaxTicks THEN today + 1 ELSE today} :
         /\ Pipeline_raises(events, req, today, now2)
         /\ today' = now2
         /\ resp' = [ stamp |-> [q |-> req, seen |-> seen, now1 |-> today,
                                 now2 |-> now2],
                      body  |-> ErrorResponse ]
    /\ prev' = resp
    /\ events' = <<>>
    /\ spc' = "idle"
    /\ UNCHANGED <<jersey_city_events, hoboken_events, bookstore_events, files,
                   gen, loaded, lpc, refresh_resp, req, seen, nsearch, fn_vars, deploy_vars>>

Next ==
    \/ RunParsers
    \/ Tick
    \/ LoadJerseyCity
    \/ LoadHoboken
    \/ LoadBookstore
    \/ RefreshRespond
    \/ SearchStart
    \/ SearchRejects
    \/ SearchReadHoboken
    \/ SearchReadBookstore
    \/ SearchRun
    \/ SearchFails

Spec == Init /\ [][Next]_vars

-----------------------------------------------------------------------------
(***************************************************************************)
(* The functions of the pipeline applied to lists of events of any shape   *)
(* the scrapers can write: fn_in is the list given, fn_arg the second      *)
(* argument, fn_today the clock, fn_out the list returned.                 *)
(***************************************************************************)

\* events that differ in how they state an age
AgePool ==
    { [ title |-> <<"a1">>, audience |-> <<"Ages", "0", "-", "2">>,
        description |-> <<"Fun", "for", "AGES", "3", "-", "5">> ],
      [ title |-> <<"a2">>, description |-> <<"ages", "5", "to", "8">> ],
      [ title |-> <<"a3">>, audience |-> <<"All", "Ages">>,
        description |-> <<"ages", "6", "-", "11">> ],
      [ title |-> <<"a4">>, audience |-> <<"Ages", "6", "-", "11">> ],
      [ title |-> <<"a5">> ],
      [ title |-> <<"a6">>, audience |-> <<"Baby", "lapsit">> ],
      [ title |-> <<"a7">>, description |-> <<"all", "ages", "welcome">> ],
      [ title |-> <<"a8">>, audience |-> <<"Families">>,
        description |-> <<"3", "-", "5", "years", "old">> ] }

\* values of kids_ages
AgeInputs ==
    { <<>>, <<"0", "-", "2">>, <<"3", "-", "5">>, <<"6", "-", "11">>, <<"3">>,
      <<"5", "-", "2">>, <<"abc">>, <<"3", "-">>, <<"1">> }

\* events whose audience holds a keyword, a range, or both
KeywordPool ==
    { [ title |-> <<"k1">>, audience |-> <<"Toddler", "2", "-", "3">> ],
      [ title |-> <<"k2">>, audience |-> <<"Baby", "lapsit">> ],
      [ title |-> <<"k3">>, audience |-> <<"infants">> ],
      [ title |-> <<"k4">>, audience |-> <<"Preschool", "3", "-", "5">> ],
      [ title |-> <<"k5">>, audience |-> <<"preschoolers">> ],
      [ title |-> <<"k6">>, description |-> <<"ages", "10", "-", "5">> ],
      [ title |-> <<"k7">>, audience |-> <<"Toddler">> ] }

\* events that differ in their date
DatePool ==
    { [ title |-> <<"d1">>, date |-> "2025-11-02" ],
      [ title |-> <<"d2">>, date |-> "2025-11-03" ],
      [ title |-> <<"d3">>, date |-> "2025-11-10" ],
      [ title |-> <<"d4">>, date |-> "2025-11-11" ],
      [ title |-> <<"d5">>, date |-> "2025-12-04" ],
      [ title |-> <<"d6">> ],
      [ title |-> <<"d7">>, date |-> "TBD" ],
      [ title |-> <<"d8">>, date |-> "11/04/2025" ],
      [ title |-> <<"d9">>, date |-> "2025-11-03", start_time |-> "00:00:00" ],
      [ title |-> <<"d10">>, date |-> "2025-11-17" ] }

\* values of date_range
DateRanges == {"week", "2weeks", "month", "all", "year"}

\* events that differ in their sort key
SortPool ==
    { [ title |-> <<"s1">>, date |-> "2025-11-04", start_time |-> "10:00:00" ],
      [ title |-> <<"s2">>, date |-> "2025-11-04", start_time |-> "10:00:00" ],
      [ title |-> <<"s3">>, date |-> "2025-11-03", start_time |-> "18:30:00" ],
      [ title |-> <<"s4">>, start_time |-> "09:30:00" ],
      [ title |-> <<"s5">>, date |-> "9999-12-31", start_time |-> "10:00:00" ],
      [ title |-> <<"s6">>, date |-> "TBD", start_time |-> "10:00:00" ],
      [ title |-> <<"s7">>, date |-> "2025-11-04", start_time |-> "9am" ],
      [ title |-> <<"s8">>, date |-> "2025-11-04" ] }

\* events that differ in their start and end times
TimePool ==
    { [ title |-> <<"t1">>, start_time |-> "09:30:00", end_time |-> "10:15:00" ],
      [ title |-> <<"t2">>, start_time |-> "11:00:00", end_time |-> "17:00:00" ],
      [ title |-> <<"t3">>, start_time |-> "10:00:00", end_time |-> "00:00:00" ],
      [ title |-> <<"t4">>, start_time |-> "10:00:00", end_time |-> "12:30:00" ],
      [ title |-> <<"t5">>, start_time |-> "18:30:00", end_time |-> "23:59:59" ],
      [ title |-> <<"t6">>, end_time |-> "10:15:00" ],
      [ title |-> <<"t7">>, start_time |-> "9am", end_time |-> "10:15:00" ],
      [ title |-> <<"t8">>, start_time |-> "10:00:00", end_time |-> "noon" ],
      [ title |-> <<"t9">>, start_time |-> "10:00:00", end_time |-> "" ],
      [ title |-> <<"t10">>, start_time |-> "10:00:00" ],
      [ title |-> <<"t11">>, start_time |-> "10:00:00", end_time |-> None ],
      [ title |-> <<"t12">>, start_time |-> None, end_time |-> "10:15:00" ] }

\* events that differ in their start_time
StartPool ==
    { [ title |-> <<"b1">>, start_time |-> "09:30:00" ],
      [ title |-> <<"b2">>, start_time |-> "12:00:00" ],
      [ title |-> <<"b3">>, start_time |-> "16:00:00" ],
      [ title |-> <<"b4">>, start_time |-> "17:00:00" ],
      [ title |-> <<"b5">> ],
      [ title |-> <<"b6">>, start_time |-> "9am" ],
      [ title |-> <<"b7">>, start_time |-> "" ],
      [ title |-> <<"b8">>, start_time |-> "25:00:00" ] }

\* values of time_of_day
BucketLists ==
    { <<>>, <<"morning">>, <<"afternoon">>, <<"evening">>,
      <<"morning", "evening">>, <<"afternoon", "morning", "evening">> }

\* events that differ in their day_of_week
DayPool ==
    { [ title |-> <<"w1">>, day_of_week |-> "Tuesday" ],
      [ title |-> <<"w2">>, day_of_week |-> "TUESDAY" ],
      [ title |-> <<"w3">>, day_of_week |-> "Wednesday" ],
      [ title |-> <<"w4">>, day_of_week |-> "saturday" ],
      [ title |-> <<"w5">> ],
      [ title |-> <<"w6">>, day_of_week |-> "" ] }

\* values of days
DayLists ==
    { <<>>, <<"Tuesday">>, <<"tuesday">>, <<"Monday">>,
      <<"TUESDAY", "Saturday">>, <<"Wednesday", "Monday">>, <<"">> }

\* events that differ in their venue_type
VenuePool ==
    { [ title |-> <<"v1">>, venue_type |-> "library" ],
      [ title |-> <<"v2">>, venue_type |-> "bookstore" ],
      [ title |-> <<"v3">> ],
      [ title |-> <<"v4">>, venue_type |-> "Library" ],
      [ title |-> <<"v5">>, venue_type |-> None ],
      [ title |-> <<"v6">>, venue_type |-> "bookstore", city |-> "Hoboken" ] }

\* values of venue_type
VenueTypes == {"all", "library", "bookstore", "Library", "museum", ""}

\* events that differ in their categories, title and description
TypePool ==
    { [ title |-> <<"y1">>, categories |-> << <<"Music">> >> ],
      [ title |-> <<"Baby", "Storytime">> ],
      [ title |-> <<"y3">>, description |-> <<"Arts", "and", "Crafts">> ],
      [ title |-> <<"Story", "Time">>,
        categories |-> << <<"Bookstore", "Events">> >> ],
      [ title |-> <<"y5">>, categories |-> << <<"Bookstore", "Events">> >> ],
      [ title |-> <<"y6">>,
        categories |-> << <<"Bookstore", "Events">>, <<"S.T.E.A.M">> >> ],
      [ title |-> <<"y7">>, description |-> <<"solar", "system">> ],
      [ title |-> <<"y8">> ],
      [ title |-> <<"y9">>, categories |-> << <<"Storytime", "Events">> >>,
        description |-> <<"Music", "and", "dancers">> ] }

\* values of event_type
EventTypes == {"all", "storytime", "arts", "steam", "music", "sports"}

\* records of the two libraries, with and without a city of their own
JerseyCityPool ==
    { [ title |-> <<"n1">> ],
      [ title |-> <<"n2">>, city |-> "Hoboken" ] }

HobokenPool ==
    { [ title |-> <<"h1">> ],
      [ title |-> <<"h2">>, city |-> "Jersey City" ] }

\* bookstore records that differ in their city
BookstorePool ==
    { [ title |-> <<"c1">>, venue_type |-> "bookstore", city |-> "Hoboken" ],
      [ title |-> <<"c2">>, venue_type |-> "bookstore", city |-> "JERSEY CITY" ],
      [ title |-> <<"c3">>, venue_type |-> "bookstore", city |-> "jersey city" ],
      [ title |-> <<"c4">>, venue_type |-> "bookstore" ],
      [ title |-> <<"c5">>, venue_type |-> "bookstore", city |-> "Newark" ],
      [ title |-> <<"c6">>, venue_type |-> "bookstore", city |-> "HOBOKEN" ] }

\* values of city
Cities == {"jersey_city", "hoboken", "both", "newark"}

\* the three collections as loaded from files that hold these lists
Collections ==
    { << Loaded("jc", 1, Readable(jc)), Loaded("hob", 1, Readable(hob)),
         Loaded("bs", 1, Readable(bs)) >> :
        jc  \in InjSeqs(JerseyCityPool, Cardinality(JerseyCityPool)),
        hob \in InjSeqs(HobokenPool, Cardinality(HobokenPool)),
        bs  \in InjSeqs(BookstorePool, MaxLen) }

\* events with fields missing, null or malformed
RecordPool ==
    { [ title |-> <<"r1">>, date |-> "2025-11-04", start_time |-> "10:00:00",
        end_time |-> "10:45:00", day_of_week |-> "Tuesday",
        audience |-> <<"Ages", "0", "-", "2">>,
        description |-> <<"Music", "for", "babies">> ],
      [ title |-> <<"r2">> ],
      [ title |-> <<"r3">>, date |-> None, audience |-> <<"All", "Ages">> ],
      [ title |-> <<"r4">>, date |-> "2025-11-04", audience |-> NoneText ],
      [ title |-> <<"r5">>, date |-> "2025-11-04", start_time |-> None,
        audience |-> <<"All", "Ages">> ],
      [ title |-> <<"r6">>, date |-> "TBD", start_time |-> "9am",
        end_time |-> "noon", audience |-> <<"Families">>,
        description |-> <<"ages", "10", "-", "5">> ],
      [ title |-> <<"r7">>, date |-> "2025-11-10", description |-> NoneText,
        audience |-> <<"Ages", "0", "-", "5">> ],
      [ title |-> <<"r8">>, date |-> "2025-11-02", start_time |-> "10:00:00",
        end_time |-> None, audience |-> <<"All", "Ages">> ] }

\* request bodies, well formed and not
QueryBodies ==
    { <<>>, NoneBody,
      [kids_ages |-> <<"0", "-", "2">>],
      [kids_ages |-> <<"abc">>],
      [kids_ages |-> <<"3", "-">>],
      [kids_ages |-> <<"1", "-", "2", "-", "3">>],
      [kids_ages |-> <<ListMark, "0", "-", "2">>],
      [time_of_day |-> <<"morning">>],
      [days |-> <<"Tuesday">>, venue_type |-> "library"],
      [date_range |-> "week"],
      [date_range |-> "week", event_type |-> "music"] }

\* queries that give several stages something to do
StageQueries ==
    { Resolve([ kids_ages |-> <<"0", "-", "2">>, venue_type |-> "library",
                event_type |-> "music", date_range |-> "week" ]),
      Resolve([ kids_ages |-> <<"3", "-", "5">>, days |-> <<"Tuesday">>,
                time_of_day |-> <<"morning">>, venue_type |-> "bookstore" ]),
      Resolve([ kids_ages |-> <<"abc">>, date_range |-> "month",
                time_of_day |-> <<"evening">>, event_type |-> "storytime" ]) }

FnInit ==
    /\ ServerInit
    /\ DeployIdle
    /\ fn_out = <<>>
    /\ \/ /\ fn_op = "age"
          /\ fn_in \in SeqsUpTo(AgePool, MaxLen)
          /\ fn_arg \in AgeInputs
          /\ fn_today = Today0
       \/ /\ fn_op = "age"
          /\ fn_in \in InjSeqs(KeywordPool, MaxLen)
          /\ fn_arg \in AgeInputs
          /\ fn_today = Today0
       \/ /\ fn_op = "date"
          /\ fn_in \in SeqsUpTo(DatePool, MaxLen)
          /\ fn_arg \in DateRanges
          /\ fn_today \in {Today0, Today0 + 1}
       \/ /\ fn_op = "sort"
          /\ fn_in \in InjSeqs(SortPool, MaxLen)
          /\ fn_arg = <<>>
          /\ fn_today = Today0
       \/ /\ fn_op = "query"
          /\ fn_in \in InjSeqs(RecordPool, MaxLen)
          /\ fn_arg \in QueryBodies
          /\ fn_today \in {Today0, Today0 + 1}
       \/ /\ fn_op = "time"
          /\ fn_in \in InjSeqs(TimePool, MaxLen)
          /\ fn_arg = <<>>
          /\ fn_today = Today0
       \/ /\ fn_op = "day"
          /\ fn_in \in InjSeqs(DayPool, MaxLen)
          /\ fn_arg \in DayLists
          /\ fn_today = Today0
       \/ /\ fn_op = "venue"
          /\ fn_in \in InjSeqs(VenuePool, MaxLen)
          /\ fn_arg \in VenueTypes
          /\ fn_today = Today0
       \/ /\ fn_op = "type"
          /\ fn_in \in InjSeqs(TypePool, MaxLen)
          /\ fn_arg \in EventTypes
          /\ fn_today = Today0
       \/ /\ fn_op = "city"
          /\ fn_in \in Collections
          /\ fn_arg \in Cities
          /\ fn_today = Today0
       \/ /\ fn_op = "stages"
          /\ fn_in \in InjSeqs(RecordPool, MaxLen)
          /\ fn_arg \in StageQueries
          /\ fn_today = Today0
       \/ /\ fn_op = "bucket"
          /\ fn_in \in InjSeqs(StartPool, MaxLen)
          /\ fn_arg \in BucketLists
          /\ fn_today = Today0

FnFilterByAge ==
    /\ fn_op = "age"
    /\ fn_out' = filter_by_age(fn_in, fn_arg)
    /\ fn_op' = "filter_by_age"
    /\ UNCHANGED <<server_vars, deploy_vars, fn_in, fn_arg, fn_today>>

FnAgeStage ==
    /\ fn_op = "age"
    /\ fn_out' = AgeStage(fn_in, fn_arg)
    /\ fn_op' = "age_stage"
    /\ UNCHANGED <<server_vars, deploy_vars, fn_in, fn_arg, fn_today>>

\* search on the working set fn_in, with kids_ages the only value supplied
FnSearch ==
    /\ fn_op = "age"
    /\ LET q == Resolve([kids_ages |-> fn_arg]) IN
       fn_out' = Response(Pipeline(fn_in, q, fn_today, fn_today), q).results
    /\ fn_op' = "search"
    /\ UNCHANGED <<server_vars, deploy_vars, fn_in, fn_arg, fn_today>>

FnFilterUpcoming ==
    /\ fn_op = "date"
    /\ fn_out' = filter_upcoming_events(fn_in, fn_today)
    /\ fn_op' = "filter_upcoming_events"
    /\ UNCHANGED <<server_vars, deploy_vars, fn_in, fn_arg, fn_today>>

FnFilterByDateRange ==
    /\ fn_op = "date"
    /\ fn_out' = filter_by_date_range(fn_in, fn_arg, fn_today)
    /\ fn_op' = "filter_by_date_range"
    /\ UNCHANGED <<server_vars, deploy_vars, fn_in, fn_arg, fn_today>>

FnSortByDate ==
    /\ fn_op = "sort"
    /\ fn_out' = sort_by_date(fn_in)
    /\ fn_op' = "sort_by_date"
    /\ UNCHANGED <<server_vars, deploy_vars, fn_in, fn_arg, fn_today>>

FnAddDurationInfo ==
    /\ fn_op = "time"
    /\ ~add_duration_info_raises(fn_in)
    /\ fn_out' = add_duration_info(fn_in)
    /\ fn_op' = "add_duration_info"
    /\ UNCHANGED <<server_vars, deploy_vars, fn_in, fn_arg, fn_today>>

FnFilterByDays ==
    /\ fn_op = "day"
    /\ ~filter_by_days_raises(fn_in, fn_arg)
    /\ fn_out' = filter_by_days(fn_in, fn_arg)
    /\ fn_op' = "filter_by_days"
    /\ UNCHANGED <<server_vars, deploy_vars, fn_in, fn_arg, fn_today>>

FnFilterByTimeOfDay ==
    /\ fn_op = "bucket"
    /\ ~filter_by_time_of_day_raises(fn_in, fn_arg)
    /\ fn_out' = filter_by_time_of_day(fn_in, fn_arg)
    /\ fn_op' = "filter_by_time_of_day"
    /\ UNCHANGED <<server_vars, deploy_vars, fn_in, fn_arg, fn_today>>

FnFilterByVenueType ==
    /\ fn_op = "venue"
    /\ fn_out' = filter_by_venue_type(fn_in, fn_arg)
    /\ fn_op' = "filter_by_venue_type"
    /\ UNCHANGED <<server_vars, deploy_vars, fn_in, fn_arg, fn_today>>

FnFilterByEventType ==
    /\ fn_op = "type"
    /\ ~filter_by_event_type_raises(fn_in, fn_arg)
    /\ fn_out' = filter_by_event_type(fn_in, fn_arg)
    /\ fn_op' = "filter_by_event_type"
    /\ UNCHANGED <<server_vars, deploy_vars, fn_in, fn_arg, fn_today>>

\* lines 124-147 on the collections fn_in, for the city fn_arg
FnWorkingSet ==
    /\ fn_op = "city"
    /\ fn_out' = WorkingSet(fn_arg, fn_in[1], fn_in[2], fn_in[3])
    /\ fn_op' = "working_set"
    /\ UNCHANGED <<server_vars, deploy_vars, fn_in, fn_arg, fn_today>>

\* two stages of lines 149-177 applied one after the other to fn_in
FnTwoStages ==
    /\ fn_op = "stages"
    /\ \E i, j \in 1..Len(StageNames) :
         /\ i < j
         /\ fn_out' = [ first  |-> StageNames[i],
                        second |-> StageNames[j],
                        result |-> TwoStages(StageNames[i], StageNames[j],
                                             fn_in, fn_arg, fn_today) ]
    /\ fn_op' = "two_stages"
    /\ UNCHANGED <<server_vars, deploy_vars, fn_in, fn_arg, fn_today>>

\* search on the working set fn_in with the request body fn_arg
FnSearchQuery ==
    /\ fn_op = "query"
    /\ fn_out' = SearchResponse(fn_in, fn_arg, fn_today, fn_today)
    /\ fn_op' = "search_query"
    /\ UNCHANGED <<server_vars, deploy_vars, fn_in, fn_arg, fn_today>>

FnNext ==
    \/ FnFilterByAge
    \/ FnAgeStage
    \/ FnSearch
    \/ FnFilterUpcoming
    \/ FnFilterByDateRange
    \/ FnSortByDate
    \/ FnAddDurationInfo
    \/ FnFilterByDays
    \/ FnFilterByTimeOfDay
    \/ FnFilterByVenueType
    \/ FnFilterByEventType
    \/ FnWorkingSet
    \/ FnTwoStages
    \/ FnSearchQuery

FnSpec == FnInit /\ [][FnNext]_vars

-----------------------------------------------------------------------------
(***************************************************************************)
(* update_and_deploy.py: main runs the three parsers, asks git whether     *)
(* anything changed, and adds, commits and pushes the data files.          *)
(* outcome is what each command does when it is run: it returns 0 ("ok"),  *)
(* returns another code ("fail") or cannot be started ("raise"); git       *)
(* status prints changes ("changes"), prints nothing ("clean"), fails or   *)
(* cannot be started.  ran is the list of the commands run so far.         *)
(***************************************************************************)

Outcomes ==
    { [ c \in Commands |-> IF c = "git status" THEN st ELSE o[c] ] :
        o  \in [Commands \ {"git status"} -> {"ok", "fail", "raise"}],
        st \in {"changes", "clean", "fail", "raise"} }

\* lines 18-47: True iff the command could be run and returned 0
run_command(cmd) == outcome[cmd] = "ok"

DeployInit ==
    /\ ServerInit
    /\ FnIdle
    /\ dpc = "parsers"
    /\ outcome \in Outcomes
    /\ ran = <<>>
    /\ success_count = 0

\* lines 64-75: one turn of the loop over parsers, and after the last one
\* the test of success_count
RunParser ==
    /\ dpc = "parsers"
    /\ LET cmd == parsers[Len(ran) + 1] IN
       /\ ran' = Append(ran, cmd)
       /\ success_count' =
              IF run_command(cmd) THEN success_count + 1 ELSE success_count
       /\ dpc' = IF Len(ran') < Len(parsers) THEN "parsers"
                 ELSE IF success_count' = 0 THEN "returned"
                 ELSE "status"
    /\ UNCHANGED <<server_vars, fn_vars, outcome>>

\* lines 82-93: subprocess.run outside run_command; an exception leaves main
\* and the script exits with status 1 (lines 143-145)
GitStatus ==
    /\ dpc = "status"
    /\ ran' = Append(ran, "git status")
    /\ dpc' = CASE outcome["git status"] = "raise"   -> "exited"
                [] outcome["git status"] = "changes" -> "add"
                [] OTHER                             -> "returned"
    /\ UNCHANGED <<server_vars, fn_vars, outcome, success_count>>

\* lines 96-101
GitAdd ==
    /\ dpc = "add"
    /\ ran' = Append(ran, "git add")
    /\ dpc' = IF run_command("git add") THEN "commit" ELSE "returned"
    /\ UNCHANGED <<server_vars, fn_vars, outcome, success_count>>

\* GitCommit going on to the push whatever git commit returned
GitCommitUnchecked ==
    /\ dpc = "commit"
    /\ ran' = Append(ran, "git commit")
    /\ dpc' = "push"
    /\ UNCHANGED <<server_vars, fn_vars, outcome, success_count>>

\* lines 104-112
GitCommit ==
    /\ dpc = "commit"
    /\ ran' = Append(ran, "git commit")
    /\ dpc' = IF run_command("git commit") THEN "push" ELSE "returned"
    /\ UNCHANGED <<server_vars, fn_vars, outcome, success_count>>

\* lines 115-135
GitPush ==
    /\ dpc = "push"
    /\ ran' = Append(ran, "git push")
    /\ dpc' = IF run_command("git push") THEN "deployed" ELSE "returned"
    /\ UNCHANGED <<server_vars, fn_vars, outcome, success_count>>

DeployNext ==
    \/ RunParser
    \/ GitStatus
    \/ GitAdd
    \/ GitCommit
    \/ GitPush

DeploySpec == DeployInit /\ [][DeployNext]_vars

-----------------------------------------------------------------------------
(***************************************************************************)
(* Properties.                                                             *)
(***************************************************************************)

Range(s) == { s[i] : i \in 1..Len(s) }

\* the position of e in a list without repetitions
Pos(s, e) == CHOOSE k \in 1..Len(s) : s[k] = e

\* C1: after any sequence of searches every record of the three loaded
\* collections has exactly the keys and values it had after the last load.
C1_SharedRecordsUnchanged ==
    /\ jersey_city_events = loaded["jc"]
    /\ hoboken_events = loaded["hob"]
    /\ bookstore_events = loaded["bs"]

\* C2: the working set a search has built is drawn from one snapshot: the
\* collections it read all come from the same load.
C2_SearchSeesOneSnapshot ==
    spc = "run" =>
        \A s, t \in Sources : (seen[s] # 0 /\ seen[t] # 0) => seen[s] = seen[t]

\* C3: two searches in succession with the same query, the same loaded
\* collections and the same clock readings give the same response.
C3_SearchIdempotent ==
    (prev.body.status = 200 /\ resp.stamp = prev.stamp) => resp.body = prev.body

\* the same search has run twice, returned events, and the first run wrote
\* to the dictionaries of a loaded collection
C3_Witness ==
    /\ prev.body.status = 200
    /\ resp.stamp = prev.stamp
    /\ resp.body.count > 0
    /\ \E s \in Sources : resp.stamp.seen[s] = gen[s]
    /\ \/ jersey_city_events # loaded["jc"]
       \/ hoboken_events # loaded["hob"]
       \/ bookstore_events # loaded["bs"]

HasAllAges(e) == InText(<<"all", "ages">>, LowerText(Get(e, "audience", <<>>)))

\* C4: for a caller interval [a,b] with a <= b, an event without 'all ages'
\* whose description yields [e1,e2] is kept by filter_by_age iff
\* not (b < e1 or a > e2), whatever its audience says; [0,2] against [3,5]
\* is excluded and [3,5] against [5,8] is included.
C4_DescriptionRangeDecides ==
    fn_op = "filter_by_age" =>
        LET u == ParseAgeInput(fn_arg) IN
        (u.ok /\ u.min <= u.max) =>
            /\ \A i \in 1..Len(fn_in) :
                 LET e == fn_in[i]
                     r == extract_age_range_from_text(Get(e, "description", <<>>))
                 IN  (r # <<>> /\ ~HasAllAges(e)) =>
                         (e \in Range(fn_out) <=> ~(u.max < r[1] \/ u.min > r[2]))
            /\ fn_arg = <<"0", "-", "2">> =>
                 \A e \in Range(fn_in) : e.title = <<"a1">> => e \notin Range(fn_out)
            /\ fn_arg = <<"3", "-", "5">> =>
                 \A e \in Range(fn_in) : e.title = <<"a2">> => e \in Range(fn_out)

\* for '3-5' the events whose descriptions say 3-5 and 5 to 8 were kept
\* from a list of three
C4_Witness ==
    /\ fn_op = "filter_by_age"
    /\ fn_arg = <<"3", "-", "5">>
    /\ Len(fn_in) = 3
    /\ \E e \in Range(fn_in) : e.title = <<"a2">> /\ e \in Range(fn_out)
    /\ \E e \in Range(fn_in) : e.title = <<"a1">> /\ e \in Range(fn_out)
    /\ \E e \in Range(fn_in) :
          /\ e.title = <<"a3">> \/ e.title = <<"a4">>
          /\ e \notin Range(fn_out) \/ HasAllAges(e)

\* C5: an event whose audience contains 'all ages' in any case is kept by
\* filter_by_age for every parseable caller interval; audience 'All Ages'
\* with '0-2' is kept and audience 'Ages 6-11' with '0-2' is dropped.
C5_AllAgesAlwaysKept ==
    fn_op = "filter_by_age" =>
        LET u == ParseAgeInput(fn_arg) IN
        u.ok =>
            /\ \A e \in Range(fn_in) :
                 ( /\ "audience" \in DOMAIN e
                   /\ \E i \in 1..Len(e.audience) - 1 :
                        /\ e.audience[i] \in {"all", "All", "ALL"}
                        /\ e.audience[i + 1] \in {"ages", "Ages", "AGES"} )
                 => e \in Range(fn_out)
            /\ fn_arg = <<"0", "-", "2">> =>
                 \A e \in Range(fn_in) :
                     /\ e.title = <<"a3">> => e \in Range(fn_out)
                     /\ e.title = <<"a4">> => e \notin Range(fn_out)

\* for '0-2' the 'All Ages' event, whose description says 6-11, is kept and
\* the 'Ages 6-11' event is dropped
C5_Witness ==
    /\ fn_op = "filter_by_age"
    /\ fn_arg = <<"0", "-", "2">>
    /\ \E e \in Range(fn_in) : e.title = <<"a3">> /\ e \in Range(fn_out)
    /\ \E e \in Range(fn_in) : e.title = <<"a4">> /\ e \notin Range(fn_out)

\* an event that states no age: no 'all ages', no range in its description
\* or audience, none of the keywords
NoAgeSignal(e) ==
    LET audience == Get(e, "audience", <<>>) IN
    /\ extract_age_range_from_text(Get(e, "description", <<>>)) = <<>>
    /\ \A i \in 1..Len(audience) :
         /\ ~IsNum(audience[i])
         /\ Lower(audience[i]) \notin
              {"all", "toddler", "toddlers", "baby", "babysitting", "infant",
               "infants", "preschool", "preschoolers"}

\* C6: with a parseable age filter supplied no event without an age signal
\* is in the search results; with kids_ages empty the age stage removes
\* nothing.
C6_FailClosedOnAge ==
    /\ (fn_op = "search" /\ fn_arg # <<>> /\ ParseAgeInput(fn_arg).ok) =>
           \A i \in 1..Len(fn_in) :
               NoAgeSignal(fn_in[i]) =>
                   \A k \in 1..Len(fn_out) : fn_out[k].title # fn_in[i].title
    /\ (fn_op = "age_stage" /\ fn_arg = <<>>) => fn_out = fn_in
    /\ (fn_op = "search" /\ fn_arg = <<>>) =>
           \A i \in 1..Len(fn_in) :
               \E k \in 1..Len(fn_out) : fn_out[k].title = fn_in[i].title

\* a search with an age filter returned something and left out an event
\* that states no age
C6_Witness ==
    /\ fn_op = "search"
    /\ fn_arg = <<"3", "-", "5">>
    /\ \E i \in 1..Len(fn_in) :
         /\ "audience" \notin DOMAIN fn_in[i]
         /\ NoAgeSignal(fn_in[i])
    /\ Len(fn_out) > 0
    /\ Len(fn_out) < Len(fn_in)

\* the date strings of the pools that are not YYYY-MM-DD
UnparsableDates == {"TBD", "11/04/2025", ""}

BadDate(e) == "date" \notin DOMAIN e \/ e.date \in UnparsableDates

\* C7: an event whose date is missing or does not parse is kept by
\* filter_upcoming_events and by filter_by_date_range, for every date_range
\* and every today.
C7_FailOpenOnDate ==
    fn_op \in {"filter_upcoming_events", "filter_by_date_range"} =>
        SelectSeq(fn_out, BadDate) = SelectSeq(fn_in, BadDate)

\* the week window dropped a dated event and kept an undated one
C7_Witness ==
    /\ fn_op = "filter_by_date_range"
    /\ fn_arg = "week"
    /\ \E e \in Range(fn_in) : "date" \notin DOMAIN e /\ e \in Range(fn_out)
    /\ \E e \in Range(fn_in) : Get(e, "date", "") = "TBD" /\ e \in Range(fn_out)
    /\ \E e \in Range(fn_in) : ~BadDate(e) /\ e \notin Range(fn_out)

\* the queries compared in C8: every combination of these values
WindowQueries ==
    { [ city |-> c, kids_ages |-> a, days |-> <<>>, date_range |-> "all",
        time_of_day |-> <<>>, venue_type |-> v, event_type |-> "all" ] :
      c \in {"jersey_city", "hoboken", "both"},
      a \in {<<>>, <<"0", "-", "2">>},
      v \in {"all", "bookstore"} }

\* the records a search with query q returns in the present state
ResultsNow(q) ==
    Range(Response(Pipeline(WorkingSet(q.city, jersey_city_events,
                                       hoboken_events, bookstore_events),
                            q, today, today), q).results)

\* C8: for the same collections, today and other parameters, the records
\* returned with date_range = 'week' are among those returned with 'all'.
C8_WeekSubsetOfAll ==
    spc = "idle" =>
        \A q \in WindowQueries :
            ResultsNow([q EXCEPT !.date_range = "week"]) \subseteq ResultsNow(q)

\* a search with date_range = 'week' has returned events, and the same
\* search without the window would now return more
C8_Witness ==
    /\ spc = "idle"
    /\ resp.body.status = 200
    /\ resp.stamp.q.date_range = "week"
    /\ LET q == resp.stamp.q IN
       /\ Range(resp.body.results) = ResultsNow(q)
       /\ ResultsNow(q) # {}
       /\ ResultsNow(q) # ResultsNow([q EXCEPT !.date_range = "all"])

SameDateAndStart(a, b) ==
    /\ ("date" \in DOMAIN a) = ("date" \in DOMAIN b)
    /\ ("start_time" \in DOMAIN a) = ("start_time" \in DOMAIN b)
    /\ Get(a, "date", "") = Get(b, "date", "")
    /\ Get(a, "start_time", "") = Get(b, "start_time", "")

\* C9: two events with identical date and start_time keep their relative
\* order in sort_by_date's output.
C9_SortStable ==
    fn_op = "sort_by_date" =>
        \A i, j \in 1..Len(fn_in) :
            (i < j /\ SameDateAndStart(fn_in[i], fn_in[j])) =>
                Pos(fn_out, fn_in[i]) < Pos(fn_out, fn_in[j])

\* two events with the same date and start time were given with a later
\* event between them, and the sort moved that event
C9_Witness ==
    /\ fn_op = "sort_by_date"
    /\ Len(fn_in) = 3
    /\ SameDateAndStart(fn_in[1], fn_in[3])
    /\ fn_in[1].title = <<"s2">>
    /\ fn_out # fn_in
    /\ Pos(fn_out, fn_in[1]) + 1 = Pos(fn_out, fn_in[3])

BothParse(e) ==
    /\ "date" \in DOMAIN e /\ e.date \notin UnparsableDates
    /\ "start_time" \in DOMAIN e => e.start_time \notin {"9am", "noon", ""}

\* C10: sort_by_date returns the events in ascending (date, start_time)
\* order, and every event whose date is missing or unparsable comes after
\* every event whose date and start_time both parse.
C10_UndatedLast ==
    fn_op = "sort_by_date" =>
        \A i, j \in 1..Len(fn_out) :
            /\ (i < j /\ BothParse(fn_out[i]) /\ BothParse(fn_out[j])) =>
                   KeyLE(get_sort_key(fn_out[i]), get_sort_key(fn_out[j]))
            /\ (BadDate(fn_out[i]) /\ BothParse(fn_out[j])) => j < i

\* the seconds since midnight of the HH:MM:SS strings of TimePool
ClockSeconds(t) ==
    CASE t = "09:30:00" -> 9 * 3600 + 30 * 60
      [] t = "10:00:00" -> 10 * 3600
      [] t = "10:15:00" -> 10 * 3600 + 15 * 60
      [] t = "11:00:00" -> 11 * 3600
      [] t = "12:30:00" -> 12 * 3600 + 30 * 60
      [] t = "17:00:00" -> 17 * 3600
      [] t = "18:30:00" -> 18 * 3600 + 30 * 60
      [] t = "23:59:59" -> 23 * 3600 + 59 * 60 + 59
      [] t = "00:00:00" -> 0

IsClock(t) ==
    t \in {"09:30:00", "10:00:00", "10:15:00", "11:00:00", "12:30:00",
           "17:00:00", "18:30:00", "23:59:59", "00:00:00"}

\* the event has an end_time and both its times are HH:MM:SS
BothTimesParse(e) ==
    /\ "start_time" \in DOMAIN e /\ IsClock(e.start_time)
    /\ "end_time" \in DOMAIN e /\ IsClock(e.end_time)

\* C11: when end_time is present and both times parse, duration_hours is
\* end_time - start_time within the day (kept in seconds: hours * 3600),
\* is_all_day says whether that is at least 6 hours, and formatted_end_time
\* is the end time on the 12-hour clock: hour in 1..12, 'AM' iff the end
\* hour is below 12; 09:30:00-10:15:00 gives 0.75 h, false, '10:15 AM'.
C11_DurationAndEndTime ==
    fn_op = "add_duration_info" =>
        \A i \in 1..Len(fn_in) :
            BothTimesParse(fn_in[i]) =>
                LET e    == fn_in[i]
                    a    == fn_out[i]
                    secs == ClockSeconds(e.end_time) - ClockSeconds(e.start_time)
                    endh == ClockSeconds(e.end_time) \div 3600
                    endm == (ClockSeconds(e.end_time) \div 60) % 60
                    f    == a.formatted_end_time
                IN  /\ a.duration_hours = secs
                    /\ a.is_all_day = (secs >= 6 * 3600)
                    /\ Len(f) = 1
                    /\ f[1].hour \in 1..12
                    /\ f[1].hour % 12 = endh % 12
                    /\ f[1].minute = endm
                    /\ f[1].period = (IF endh < 12 THEN "AM" ELSE "PM")
                    /\ e.title = <<"t1">> =>
                          /\ 4 * a.duration_hours = 3 * 3600
                          /\ a.is_all_day = FALSE
                          /\ f = << [hour |-> 10, minute |-> 15, period |-> "AM"] >>

\* the 45-minute event, the six-hour event and the one that ends in the
\* afternoon have been annotated
C11_Witness ==
    /\ fn_op = "add_duration_info"
    /\ Len(fn_in) = 3
    /\ fn_in[1].title = <<"t1">> /\ fn_out[1].duration_hours = 2700
    /\ fn_in[2].title = <<"t2">> /\ fn_out[2].is_all_day
    /\ fn_out[2].formatted_end_time = << [hour |-> 5, minute |-> 0, period |-> "PM"] >>
    /\ fn_in[3].title = <<"t4">>
    /\ fn_out[3].formatted_end_time = << [hour |-> 12, minute |-> 30, period |-> "PM"] >>

\* end_time absent or empty, or a time that does not parse
TimesFail(e) ==
    \/ "end_time" \notin DOMAIN e
    \/ e.end_time = ""
    \/ ~IsClock(e.end_time)
    \/ "start_time" \in DOMAIN e /\ ~IsClock(e.start_time)

\* C12: add_duration_info never raises; an event whose end_time is absent
\* or empty, or one of whose times fails to parse, gets duration_hours 0,
\* is_all_day false and formatted_end_time null, and the other events of
\* the list are annotated all the same.
C12_DefaultsNeverRaises ==
    /\ fn_op = "time" => ~add_duration_info_raises(fn_in)
    /\ fn_op = "add_duration_info" =>
          /\ Len(fn_out) = Len(fn_in)
          /\ \A i \in 1..Len(fn_in) :
                /\ {"duration_hours", "is_all_day", "formatted_end_time"}
                       \subseteq DOMAIN fn_out[i]
                /\ \A k \in DOMAIN fn_in[i] : fn_out[i][k] = fn_in[i][k]
                /\ TimesFail(fn_in[i]) =>
                      /\ fn_out[i].duration_hours = 0
                      /\ fn_out[i].is_all_day = FALSE
                      /\ fn_out[i].formatted_end_time = <<>>

\* an event whose start time fails to parse stood between two events whose
\* times parse, and all three were annotated
C12_Witness ==
    /\ fn_op = "add_duration_info"
    /\ Len(fn_in) = 3
    /\ BothTimesParse(fn_in[1]) /\ fn_out[1].duration_hours > 0
    /\ fn_in[2].title \in {<<"t7">>, <<"t12">>}
    /\ fn_out[2].formatted_end_time = <<>>
    /\ BothTimesParse(fn_in[3]) /\ fn_out[3].formatted_end_time # <<>>

\* a supplied kids_ages that is neither one integer nor two joined by a dash
MalformedAges(data) ==
    /\ IsDict(data)
    /\ Get(data, "kids_ages", <<>>) # <<>>
    /\ ~ParseAgeInput(Get(data, "kids_ages", <<>>)).ok

\* C13: a malformed kids_ages makes the age stage an identity: the search
\* succeeds and returns what it returns with no age filter supplied.
C13_MalformedAgesIsIdentity ==
    (fn_op = "search_query" /\ MalformedAges(fn_arg)) =>
        LET plain == SearchResponse(fn_in, <<>>, fn_today, fn_today) IN
        plain.status = 200 =>
            /\ fn_out.status = 200
            /\ fn_out.results = plain.results
            /\ fn_out.count = plain.count

\* the request is a dictionary whose kids_ages, if any, is a string
WellFormedQuery(data) ==
    /\ IsDict(data)
    /\ IsStr(Get(data, "kids_ages", <<>>))

\* fn_in without its i-th event
Without(s, i) == SubSeq(s, 1, i - 1) \o SubSeq(s, i + 1, Len(s))

\* C14: no record with a missing, null or malformed date, start_time,
\* end_time, audience or description aborts a query: the search succeeds and
\* the other records come out as they do without that record.
C14_NoRecordAbortsQuery ==
    (fn_op = "search_query" /\ WellFormedQuery(fn_arg)) =>
        /\ fn_out.status = 200
        /\ \A i \in 1..Len(fn_in) :
              LET rest == SearchResponse(Without(fn_in, i), fn_arg,
                                         fn_today, fn_today)
              IN  (rest.status = 200 /\ fn_out.status = 200) =>
                      Range(rest.results) =
                          { r \in Range(fn_out.results) : r.title # fn_in[i].title }

\* whether the search on fn_in with body fn_arg fails as a whole
QueryFails ==
    \/ ~IsDict(fn_arg)
    \/ ~IsStr(Get(fn_arg, "kids_ages", <<>>))
    \/ \E i \in 1..Len(fn_in) : Get(fn_in[i], "date", "") = None

\* C15: a search that fails as a whole answers with one failure response,
\* an error with status 500 that has no 'results' and no 'count'; every
\* other response is a success with both.
C15_FailureHasNoResults ==
    fn_op = "search_query" =>
        /\ QueryFails => fn_out.status = 500
        /\ fn_out.status \in {200, 500}
        /\ fn_out.status = 500 => DOMAIN fn_out = {"status", "error"}
        /\ fn_out.status = 200 => {"results", "count"} \subseteq DOMAIN fn_out

\* a body that is not a dictionary was sent while two events that a search
\* returns were loaded, and the answer is the failure response
C15_Witness ==
    /\ fn_op = "search_query"
    /\ fn_arg = NoneBody
    /\ Len(fn_in) = 2
    /\ SearchResponse(fn_in, <<>>, fn_today, fn_today).status = 200
    /\ SearchResponse(fn_in, <<>>, fn_today, fn_today).count = 2
    /\ fn_out.status = 500

\* C16: a successful response has count = len(results) and echoes the
\* resolved value of every query parameter: city, kids_ages, days,
\* date_range, time_of_day, venue_type and event_type.
C16_CountAndEcho ==
    (fn_op = "search_query" /\ fn_out.status = 200) =>
        /\ fn_out.count = Len(fn_out.results)
        /\ fn_out.user_preferences = Resolve(fn_arg)

\* the caller's interval [lo, hi] meets [a, b]
Meets(lo, hi, a, b) == hi >= a /\ lo <= b

\* C17: an event without 'all ages' and without a range in its description
\* whose audience holds a range X-Y is kept by filter_by_age iff [X,Y]
\* overlaps the caller's interval, whatever keyword the audience also holds.
C17_AudienceRangeDecides ==
    fn_op = "filter_by_age" =>
        LET u == ParseAgeInput(fn_arg) IN
        u.ok =>
            \A e \in Range(fn_in) :
                LET r == AudienceMatch(LowerText(Get(e, "audience", <<>>))) IN
                ( /\ ~HasAllAges(e)
                  /\ extract_age_range_from_text(Get(e, "description", <<>>)) = <<>>
                  /\ r # <<>> ) =>
                    (e \in Range(fn_out) <=> Meets(u.min, u.max, r[1], r[2]))

\* the keyword w is in the audience of e
HasKeyword(e, w) == InText(<<w>>, LowerText(Get(e, "audience", <<>>)))

\* C18: an event with no other age signal is kept by the keyword fallback
\* iff the interval of one of its keywords overlaps the caller's: [1,3] for
\* 'toddler', [0,2] for 'baby' and 'infant', [3,5] for 'preschool'; an
\* audience with 'baby' is dropped for [6,11].
C18_KeywordIntervals ==
    fn_op = "filter_by_age" =>
        LET u == ParseAgeInput(fn_arg) IN
        u.ok =>
            \A e \in Range(fn_in) :
                ( /\ ~HasAllAges(e)
                  /\ extract_age_range_from_text(Get(e, "description", <<>>)) = <<>>
                  /\ AudienceMatch(LowerText(Get(e, "audience", <<>>))) = <<>> ) =>
                    ( e \in Range(fn_out) <=>
                        \/ HasKeyword(e, "toddler") /\ Meets(u.min, u.max, 1, 3)
                        \/ /\ HasKeyword(e, "baby") \/ HasKeyword(e, "infant")
                           /\ Meets(u.min, u.max, 0, 2)
                        \/ HasKeyword(e, "preschool") /\ Meets(u.min, u.max, 3, 5) )

\* C19: no interval with min > max reaches check_age_overlap, neither the
\* caller's nor one taken from a description or an audience.
C19_NoInvertedInterval ==
    fn_op = "filter_by_age" =>
        \A c \in filter_by_age_calls(fn_in, fn_arg) : c[1] <= c[2] /\ c[3] <= c[4]

\* the date of e parses and is before the day now
PastDated(e, now) ==
    /\ StrpDate(Get(e, "date", "")).ok
    /\ StrpDate(Get(e, "date", "")).v < now

\* C20: filter_upcoming_events drops exactly the events whose date parses
\* and is before today, so an event dated today stays whatever its
\* start_time; search applies it before the date window and the sort, and
\* no result of a search has a date that parses and is before today.
C20_OnlyPastDropped ==
    /\ fn_op = "filter_upcoming_events" =>
          fn_out = SelectSeq(fn_in, LAMBDA e : ~PastDated(e, fn_today))
    /\ (fn_op = "search_query" /\ fn_out.status = 200) =>
          \A r \in Range(fn_out.results) : ~PastDated(r, fn_today)

\* of three events the one dated yesterday was dropped, and the one dated
\* today that starts at midnight was kept
C20_Witness ==
    /\ fn_op = "filter_upcoming_events"
    /\ Len(fn_in) = 3
    /\ Len(fn_out) = 2
    /\ \E e \in Range(fn_in) : PastDated(e, fn_today) /\ e \notin Range(fn_out)
    /\ \E e \in Range(fn_out) :
          /\ StrpDate(Get(e, "date", "")).ok
          /\ StrpDate(Get(e, "date", "")).v = fn_today
          /\ Get(e, "start_time", "") = "00:00:00"

\* C21: for date_range week, 2weeks, month (N = 7, 14, 30) filter_by_date_range
\* keeps an event whose date parses iff today <= date <= today + N, both ends
\* included; for 'all' it returns its input unchanged.
C21_WindowInclusive ==
    fn_op = "filter_by_date_range" =>
        /\ fn_arg = "all" => fn_out = fn_in
        /\ \A w \in {<<"week", 7>>, <<"2weeks", 14>>, <<"month", 30>>} :
              fn_arg = w[1] =>
                  \A e \in Range(fn_in) :
                      LET d == StrpDate(Get(e, "date", "")) IN
                      d.ok => ( e \in Range(fn_out) <=>
                                  (fn_today <= d.v /\ d.v <= fn_today + w[2]) )

\* with the two-week window, the event dated today + 14 was kept and the
\* event dated yesterday or after the window was dropped
C21_Witness ==
    /\ fn_op = "filter_by_date_range"
    /\ fn_arg = "2weeks"
    /\ \E e \in Range(fn_out) :
          /\ StrpDate(Get(e, "date", "")).ok
          /\ StrpDate(Get(e, "date", "")).v = fn_today + 14
    /\ \E e \in Range(fn_in) :
          /\ StrpDate(Get(e, "date", "")).ok
          /\ StrpDate(Get(e, "date", "")).v > fn_today + 14
          /\ e \notin Range(fn_out)
    /\ \E e \in Range(fn_in) : PastDated(e, fn_today) /\ e \notin Range(fn_out)

\* the bucket of an hour
Bucket(hour) ==
    IF hour < 12 THEN "morning" ELSE IF hour < 17 THEN "afternoon" ELSE "evening"

\* C22: filter_by_time_of_day keeps an event whose start_time parses iff
\* its bucket (morning: hour < 12, afternoon: 12 <= hour < 17, evening:
\* hour >= 17) is requested; an event whose start_time is missing or does
\* not parse is kept for every requested set; an empty list is a no-op.
C22_BucketsFailOpen ==
    fn_op = "filter_by_time_of_day" =>
        /\ fn_arg = <<>> => fn_out = fn_in
        /\ fn_arg # <<>> =>
              \A e \in Range(fn_in) :
                  IF "start_time" \in DOMAIN e /\ HourOf(e.start_time).ok
                  THEN e \in Range(fn_out) <=>
                           Bucket(HourOf(e.start_time).v) \in Range(fn_arg)
                  ELSE e \in Range(fn_out)

\* C23: filter_by_days keeps an event iff its day_of_week, case-folded, is
\* the case-folding of a selected day; with no day selected it returns its
\* input unchanged, and an event without day_of_week is dropped whenever a
\* day is selected.
C23_DaysCaseFolded ==
    fn_op = "filter_by_days" =>
        /\ fn_arg = <<>> => fn_out = fn_in
        /\ fn_arg # <<>> =>
              \A e \in Range(fn_in) :
                  IF "day_of_week" \in DOMAIN e
                  THEN e \in Range(fn_out) <=>
                           \E i \in 1..Len(fn_arg) :
                               Lower(e.day_of_week) = Lower(fn_arg[i])
                  ELSE e \notin Range(fn_out)

\* C24: filter_by_venue_type keeps an event iff its venue_type, 'library'
\* when the event has none, is exactly the requested one; for 'all' it
\* returns its input unchanged; an event with no venue_type is returned for
\* 'library' and not for 'bookstore'.
C24_VenueExactWithDefault ==
    fn_op = "filter_by_venue_type" =>
        /\ fn_arg = "all" => fn_out = fn_in
        /\ fn_arg # "all" =>
              fn_out = SelectSeq(fn_in, LAMBDA e :
                           IF "venue_type" \in DOMAIN e
                           THEN e.venue_type = fn_arg
                           ELSE fn_arg = "library")
        /\ \A e \in Range(fn_in) :
              "venue_type" \notin DOMAIN e =>
                  /\ fn_arg = "library" => e \in Range(fn_out)
                  /\ fn_arg = "bookstore" => e \notin Range(fn_out)

\* asked for 'library', the event with no venue_type and the library event
\* were returned, and the bookstore event and the 'Library' event were not
C24_Witness ==
    /\ fn_op = "filter_by_venue_type"
    /\ fn_arg = "library"
    /\ Len(fn_in) = 3
    /\ \E e \in Range(fn_out) : "venue_type" \notin DOMAIN e
    /\ \E e \in Range(fn_out) : Get(e, "venue_type", "") = "library"
    /\ \E e \in Range(fn_in) :
          Get(e, "venue_type", "") \in {"bookstore", "Library"} /\ e \notin Range(fn_out)

\* the keyword list of each event type, in lower case
LowerKeywords(event_type) ==
    CASE event_type = "storytime" ->
             { <<"storytime", "events">>, <<"storytime">>, <<"story", "time">> }
      [] event_type = "arts" ->
             { <<"arts", "and", "crafts">>, <<"arts">>, <<"crafts">> }
      [] event_type = "steam" -> { <<"s.t.e.a.m">>, <<"stem">>, <<"steam">> }
      [] event_type = "music" ->
             { <<"music", "and", "dance">>, <<"music">>, <<"dance">> }

\* the texts of e that the event type is looked for in, in lower case
TypeTexts(e) ==
    { LowerText(c) : c \in Range(Get(e, "categories", <<>>)) }
        \cup { LowerText(Get(e, "title", <<>>)),
               LowerText(Get(e, "description", <<>>)) }

\* C25: for event_type storytime, arts, steam or music, filter_by_event_type
\* keeps an event iff a keyword of the type's list is a case-insensitive
\* substring of a category tag, of the title or of the description; for
\* 'all' it returns its input unchanged.
C25_KeywordInAnyText ==
    fn_op = "filter_by_event_type" =>
        /\ fn_arg = "all" => fn_out = fn_in
        /\ fn_arg \in {"storytime", "arts", "steam", "music"} =>
              fn_out = SelectSeq(fn_in, LAMBDA e :
                           \E kw \in LowerKeywords(fn_arg) :
                               \E text \in TypeTexts(e) : InText(kw, text))

\* asked for 'music', an event was returned for its category tag 'Music'
\* alone, and an event with other tags and texts was not
C25_Witness ==
    /\ fn_op = "filter_by_event_type"
    /\ fn_arg = "music"
    /\ Len(fn_out) < Len(fn_in)
    /\ \E e \in Range(fn_out) :
          /\ <<"Music">> \in Range(Get(e, "categories", <<>>))
          /\ "description" \notin DOMAIN e
          /\ ~InText(<<"music">>, LowerText(e.title))

\* the collection (jc, hob or bs) a dictionary of the working set lives in,
\* or "new" for a dictionary the request made
Home(r) == IF "oid" \in DOMAIN r THEN r.oid[1] ELSE "new"

\* C26: for a single city the working set is that city's own collection
\* followed by the bookstore records whose city is the city's name up to
\* case; no record of the other city's collection and no bookstore record
\* with another city or with none is in it.
C26_SingleCityWorkingSet ==
    fn_op = "working_set" =>
        \A c \in { <<"jersey_city", 1, "jersey city", "hob">>,
                    <<"hoboken", 2, "hoboken", "jc">> } :
            fn_arg = c[1] =>
                /\ fn_out = fn_in[c[2]] \o
                       SelectSeq(fn_in[3], LAMBDA e :
                           "city" \in DOMAIN e /\ Lower(e.city) = c[3])
                /\ \A r \in Range(fn_out) :
                       /\ Home(r) # c[4]
                       /\ Home(r) = "bs" =>
                              "city" \in DOMAIN r /\ Lower(r.city) = c[3]

\* asked for Jersey City while the other collection was not empty, the
\* working set got a bookstore record tagged 'JERSEY CITY' after the city's
\* own records, and left out a bookstore record of Hoboken and an untagged one
C26_Witness ==
    /\ fn_op = "working_set"
    /\ fn_arg = "jersey_city"
    /\ Len(fn_in[1]) = 2 /\ Len(fn_in[2]) = 2 /\ Len(fn_in[3]) = 3
    /\ Len(fn_out) = 3
    /\ Get(fn_out[3], "city", "") = "JERSEY CITY"
    /\ \E e \in Range(fn_in[3]) : Get(e, "city", "") = "Hoboken"
    /\ \E e \in Range(fn_in[3]) : "city" \notin DOMAIN e

\* the dictionary {**e, 'city': name}
CityCopy(e, name) ==
    [ k \in (DOMAIN e \ {"oid"}) \cup {"city"} |->
        IF k = "city" THEN name ELSE e[k] ]

\* C27: for 'both' the working set is the three collections one after the
\* other, every Jersey City record with city 'Jersey City' and every Hoboken
\* record with city 'Hoboken' whatever city it had, the bookstore records as
\* they are; the tagged dictionaries are copies, so that the records of the
\* two collections keep their city.
C27_BothTaggedCopies ==
    (fn_op = "working_set" /\ fn_arg = "both") =>
        /\ fn_out = [ i \in 1..Len(fn_in[1]) |-> CityCopy(fn_in[1][i], "Jersey City") ]
                  \o [ i \in 1..Len(fn_in[2]) |-> CityCopy(fn_in[2][i], "Hoboken") ]
                  \o fn_in[3]
        /\ \A r \in Range(fn_out) : Home(r) \in {"new", "bs"}
        /\ \A r \in Range(fn_out) : Home(r) = "bs" => r \in Range(fn_in[3])

\* asked for both, a Jersey City record that had city 'Hoboken' is in the
\* working set with city 'Jersey City', and a bookstore record is in it as
\* loaded, with its own spelling of the city
C27_Witness ==
    /\ fn_op = "working_set"
    /\ fn_arg = "both"
    /\ \E e \in Range(fn_in[1]) :
          /\ Get(e, "city", "") = "Hoboken"
          /\ \E r \in Range(fn_out) :
                r.title = e.title /\ r.city = "Jersey City" /\ Home(r) = "new"
    /\ \E e \in Range(fn_in[2]) :
          /\ "city" \notin DOMAIN e
          /\ \E r \in Range(fn_out) : r.title = e.title /\ r.city = "Hoboken"
    /\ \E r \in Range(fn_out) : Home(r) = "bs" /\ Get(r, "city", "") = "JERSEY CITY"
    /\ \E r \in Range(fn_out) : Home(r) = "bs" /\ "city" \notin DOMAIN r

\* C28: for a list of events, a today and a query, two stages applied in
\* one order give what they give in the other order: the same list, in the
\* same order.
C28_StagesCommute ==
    fn_op = "two_stages" =>
        TwoStages(fn_out.second, fn_out.first, fn_in, fn_arg, fn_today)
            = fn_out.result

\* the list a source's file parses to, or the empty list
ParsedOrEmpty(s) == IF files[s].state = "ok" THEN files[s].data ELSE <<>>

\* C29: after load_event_data each collection is what its own file parses
\* to, or the empty list when the file is missing or unreadable, whatever
\* the other two files are and whatever the collection held before; all
\* three sources are loaded every time, and the answer to /refresh reports
\* the lengths of the three collections that resulted.
C29_EachSourceLoadsAlone ==
    /\ lpc \in {"idle", "respond"} =>
          \A s \in Sources : gen[s] = gen["jc"]
    /\ lpc = "respond" =>
          \A s \in Sources : Map(loaded[s], Strip) = ParsedOrEmpty(s)
    /\ /\ Len(jersey_city_events) = Len(loaded["jc"])
       /\ Len(hoboken_events) = Len(loaded["hob"])
       /\ Len(bookstore_events) = Len(loaded["bs"])
    /\ (lpc = "idle" /\ gen["jc"] > 1) =>
          /\ refresh_resp.status = 200
          /\ refresh_resp.jersey_city_count = Len(loaded["jc"])
          /\ refresh_resp.hoboken_count = Len(loaded["hob"])
          /\ refresh_resp.bookstore_count = Len(loaded["bs"])

\* /refresh has answered while the Hoboken file was missing and the
\* bookstore file unreadable: both collections, loaded before, are empty,
\* the Jersey City collection holds its new file, and the counts are 1, 0, 0
C29_Witness ==
    /\ lpc = "idle"
    /\ gen = [s \in Sources |-> 2]
    /\ files["hob"].state = "missing"
    /\ files["bs"].state = "unreadable"
    /\ hoboken_events = <<>>
    /\ bookstore_events = <<>>
    /\ Len(jersey_city_events) = 1
    /\ Strip(jersey_city_events[1]).title = files["jc"].data[1].title
    /\ refresh_resp.jersey_city_count = 1
    /\ refresh_resp.hoboken_count = 0
    /\ refresh_resp.bookstore_count = 0

\* the steps of main in their order
Steps == parsers \o <<"git status", "git add", "git commit", "git push">>

\* the number of steps run when main stops: up to and with the first step
\* that fails or finds nothing to do
StopsAfter ==
    IF \A i \in 1..Len(parsers) : outcome[parsers[i]] # "ok" THEN 3
    ELSE IF outcome["git status"] # "changes" THEN 4
    ELSE IF outcome["git add"] # "ok" THEN 5
    ELSE IF outcome["git commit"] # "ok" THEN 6
    ELSE 7

\* C30: main runs its steps in the order parsers, git status, git add, git
\* commit, git push; git push is run only if a parser succeeded, git status
\* showed changes and git add and git commit succeeded; main stops with the
\* first step that fails or finds nothing to do and runs no later step.
C30_DeployStepOrder ==
    /\ Len(ran) <= Len(Steps)
    /\ ran = SubSeq(Steps, 1, Len(ran))
    /\ Len(ran) <= StopsAfter
    /\ "git push" \in Range(ran) =>
          /\ \E i \in 1..Len(parsers) : outcome[parsers[i]] = "ok"
          /\ outcome["git status"] = "changes"
          /\ outcome["git add"] = "ok"
          /\ outcome["git commit"] = "ok"
    /\ dpc \in {"returned", "exited", "deployed"} => Len(ran) = StopsAfter

\* one parser failed, the other two succeeded, and main ran every step up
\* to a push that succeeded
C30_Witness ==
    /\ dpc = "deployed"
    /\ success_count = 2
    /\ outcome[parsers[2]] = "fail"
    /\ ran = Steps

=============================================================================
